---- MODULE Spec2Model ----
(***************************************************************************)
(* A model of the lettr-go client: the request/response pipeline of        *)
(* Client (newRequest, do, parseError), the resource services built on it  *)
(* and the parts of net/url the client's paths go through.                 *)
(*                                                                         *)
(* Strings are TLC strings; a character is a string of length one.         *)
(***************************************************************************)
EXTENDS Integers, Sequences, FiniteSets, TLC

(***************************************************************************)
(* strings                                                                 *)
(***************************************************************************)

Ch(s, i) == SubSeq(s, i, i)

HasPrefix(s, p) == Len(s) >= Len(p) /\ SubSeq(s, 1, Len(p)) = p

HasSuffix(s, p) == Len(s) >= Len(p) /\ SubSeq(s, Len(s) - Len(p) + 1, Len(s)) = p

\* the places of the one-character separator c in s
Places(s, c) == {i \in 1..Len(s) : Ch(s, i) = c}

Least(I) == IF I = {} THEN 0 ELSE CHOOSE i \in I : \A j \in I : i <= j

Greatest(I) == IF I = {} THEN 0 ELSE CHOOSE i \in I : \A j \in I : j <= i

\* strings.Index for a one-character separator; 0 when absent
Index(s, c) == Least(Places(s, c))

\* strings.LastIndex for a one-character separator; 0 when absent
LastIndex(s, c) == Greatest(Places(s, c))

Count(s, c) == Cardinality(Places(s, c))

\* strings.Cut(s, c): the text before and after the first c
CutBefore(s, c) == LET i == Index(s, c) IN IF i = 0 THEN s ELSE SubSeq(s, 1, i - 1)

CutAfter(s, c) == LET i == Index(s, c) IN IF i = 0 THEN "" ELSE SubSeq(s, i + 1, Len(s))

WhiteSpace == {" ", "\t"}

RECURSIVE TrimLeft(_)
TrimLeft(s) ==
  IF s # "" /\ Head(s) \in WhiteSpace THEN TrimLeft(Tail(s)) ELSE s

RECURSIVE TrimRight(_)
TrimRight(s) ==
  IF s # "" /\ Ch(s, Len(s)) \in WhiteSpace
  THEN TrimRight(SubSeq(s, 1, Len(s) - 1))
  ELSE s

\* strings.TrimSpace
TrimSpace(s) == TrimRight(TrimLeft(s))

Digits == <<"0", "1", "2", "3", "4", "5", "6", "7", "8", "9">>

RECURSIVE ItoaNat(_)
ItoaNat(n) == IF n < 10 THEN Digits[n + 1] ELSE ItoaNat(n \div 10) \o Digits[(n % 10) + 1]

\* strconv.Itoa
Itoa(n) == IF n < 0 THEN "-" \o ItoaNat(0 - n) ELSE ItoaNat(n)

(***************************************************************************)
(* net/url: escaping                                                       *)
(***************************************************************************)

Letters ==
  {"a", "b", "c", "d", "e", "f", "g", "h", "i", "j", "k", "l", "m",
   "n", "o", "p", "q", "r", "s", "t", "u", "v", "w", "x", "y", "z",
   "A", "B", "C", "D", "E", "F", "G", "H", "I", "J", "K", "L", "M",
   "N", "O", "P", "Q", "R", "S", "T", "U", "V", "W", "X", "Y", "Z"}

DigitChars == {"0", "1", "2", "3", "4", "5", "6", "7", "8", "9"}

HexChars == DigitChars \cup {"a", "b", "c", "d", "e", "f", "A", "B", "C", "D", "E", "F"}

\* the characters no mode escapes
Unreserved == Letters \cup DigitChars \cup {"-", "_", ".", "~"}

\* the escape of each character of the model's alphabets that some mode escapes
PctTable ==
  [c \in {" ", "\"", "#", "$", "%", "&", "+", ",", "/", ":", ";", "=", "?", "@"} |->
     CASE c = " "  -> "20"
       [] c = "\"" -> "22"
       [] c = "#"  -> "23"
       [] c = "$"  -> "24"
       [] c = "%"  -> "25"
       [] c = "&"  -> "26"
       [] c = "+"  -> "2B"
       [] c = ","  -> "2C"
       [] c = "/"  -> "2F"
       [] c = ":"  -> "3A"
       [] c = ";"  -> "3B"
       [] c = "="  -> "3D"
       [] c = "?"  -> "3F"
       [] c = "@"  -> "40"]

\* the byte a pair of hex digits stands for ("." is 2E; the rest is PctTable)
Unhex(hh) ==
  IF hh = "2E" THEN "."
  ELSE CHOOSE c \in DOMAIN PctTable : PctTable[c] = hh

\* url.shouldEscape for the modes "path", "pathSegment", "queryComponent", "fragment"
shouldEscape(c, mode) ==
  IF c \in Unreserved THEN FALSE
  ELSE IF c \in {"$", "&", "+", ",", "/", ":", ";", "=", "?", "@"}
       THEN CASE mode = "path"           -> c = "?"
              [] mode = "pathSegment"    -> c \in {"/", ";", ",", "?"}
              [] mode = "queryComponent" -> TRUE
              [] mode = "fragment"       -> FALSE
  ELSE IF mode = "fragment" /\ c \in {"!", "(", ")", "*"} THEN FALSE
  ELSE TRUE

RECURSIVE escapeFrom(_, _, _)
escapeFrom(s, mode, i) ==
  IF i > Len(s) THEN ""
  ELSE LET c == Ch(s, i)
           e == IF shouldEscape(c, mode)
                THEN IF c = " " /\ mode = "queryComponent" THEN "+"
                     ELSE "%" \o PctTable[c]
                ELSE c
       IN e \o escapeFrom(s, mode, i + 1)

\* url.escape: a string with nothing to escape is returned as it is
escape(s, mode) ==
  IF \A i \in 1..Len(s) : ~shouldEscape(Ch(s, i), mode) THEN s
  ELSE escapeFrom(s, mode, 1)

RECURSIVE unescapeFrom(_, _, _)
unescapeFrom(s, mode, i) ==
  IF i > Len(s) THEN [ok |-> TRUE, s |-> ""]
  ELSE IF Ch(s, i) = "%"
  THEN IF i + 2 <= Len(s) /\ Ch(s, i + 1) \in HexChars /\ Ch(s, i + 2) \in HexChars
       THEN LET r == unescapeFrom(s, mode, i + 3)
            IN IF r.ok THEN [ok |-> TRUE, s |-> Unhex(SubSeq(s, i + 1, i + 2)) \o r.s] ELSE r
       ELSE [ok |-> FALSE, s |-> ""]
  ELSE LET r == unescapeFrom(s, mode, i + 1)
           c == IF Ch(s, i) = "+" /\ mode = "queryComponent" THEN " " ELSE Ch(s, i)
       IN IF r.ok THEN [ok |-> TRUE, s |-> c \o r.s] ELSE r

\* url.unescape: [ok, s]; not ok is an EscapeError. A string with no "%" (and,
\* in a query, no "+") is returned as it is
unescape(s, mode) ==
  IF \A i \in 1..Len(s) : Ch(s, i) # "%" /\ (Ch(s, i) # "+" \/ mode # "queryComponent")
  THEN [ok |-> TRUE, s |-> s]
  ELSE unescapeFrom(s, mode, 1)

\* url.validEncoded
validEncoded(s, mode) ==
  \A i \in 1..Len(s) :
    LET c == Ch(s, i)
    IN \/ c \in {"!", "$", "&", "'", "(", ")", "*", "+", ",", ";", "=", ":", "@", "[", "]", "%"}
       \/ ~shouldEscape(c, mode)

\* url.PathEscape
PathEscape(s) == escape(s, "pathSegment")

\* a variant of QueryEscape that escapes nothing
QueryEscapeNothing(s) == s

\* url.QueryEscape
QueryEscape(s) == escape(s, "queryComponent")

\* url.QueryUnescape
QueryUnescape(s) == unescape(s, "queryComponent")

(***************************************************************************)
(* net/url: URL, Parse, String, ResolveReference                           *)
(***************************************************************************)

\* url.URL (User is left out: no address of the model carries userinfo)
EmptyURL ==
  [Scheme |-> "", Opaque |-> "", Host |-> "", Path |-> "", RawPath |-> "",
   OmitHost |-> FALSE, ForceQuery |-> FALSE, RawQuery |-> "",
   Fragment |-> "", RawFragment |-> ""]

ParseFailed == [ok |-> FALSE, url |-> EmptyURL]

\* URL.setPath
setPath(u, p) ==
  LET Set(r) ==
        IF ~r.ok THEN ParseFailed
        ELSE [ok |-> TRUE,
              url |-> [u EXCEPT !.Path = r.s,
                                !.RawPath = IF escape(r.s, "path") = p THEN "" ELSE p]]
  IN Set(unescape(p, "path"))

\* URL.setFragment
setFragment(u, f) ==
  LET Set(r) ==
        IF ~r.ok THEN ParseFailed
        ELSE [ok |-> TRUE,
              url |-> [u EXCEPT !.Fragment = r.s,
                                !.RawFragment = IF escape(r.s, "fragment") = f THEN "" ELSE f]]
  IN Set(unescape(f, "fragment"))

\* URL.EscapedPath
EscapedPath(u) ==
  LET Is(r, path) == r.ok /\ r.s = path
  IN IF /\ u.RawPath # ""
        /\ validEncoded(u.RawPath, "path")
        /\ Is(unescape(u.RawPath, "path"), u.Path)
     THEN u.RawPath
     ELSE IF u.Path = "*" THEN "*" ELSE escape(u.Path, "path")

\* URL.EscapedFragment
EscapedFragment(u) ==
  LET Is(r, fragment) == r.ok /\ r.s = fragment
  IN IF /\ u.RawFragment # ""
        /\ validEncoded(u.RawFragment, "fragment")
        /\ Is(unescape(u.RawFragment, "fragment"), u.Fragment)
     THEN u.RawFragment
     ELSE escape(u.Fragment, "fragment")

\* url.getScheme: [ok, scheme, rest]
RECURSIVE schemeScan(_, _)
schemeScan(raw, i) ==
  IF i > Len(raw) THEN [ok |-> TRUE, scheme |-> "", rest |-> raw]
  ELSE LET c == Ch(raw, i)
       IN IF c \in Letters THEN schemeScan(raw, i + 1)
          ELSE IF c \in DigitChars \cup {"+", "-", "."}
               THEN IF i = 1 THEN [ok |-> TRUE, scheme |-> "", rest |-> raw]
                    ELSE schemeScan(raw, i + 1)
          ELSE IF c = ":"
               THEN IF i = 1 THEN [ok |-> FALSE, scheme |-> "", rest |-> ""]
                    ELSE [ok |-> TRUE, scheme |-> SubSeq(raw, 1, i - 1),
                          rest |-> SubSeq(raw, i + 1, Len(raw))]
          ELSE [ok |-> TRUE, scheme |-> "", rest |-> raw]

getScheme(raw) == schemeScan(raw, 1)

\* url.parseHost, for the hosts of the model: a name of unreserved characters
\* with an optional numeric port is accepted as it is; "%" in a host is an error
validHost(a) ==
  LET Valid(name, port) ==
        /\ \A k \in 1..Len(name) : Ch(name, k) \in Unreserved
        /\ \A k \in 1..Len(port) : Ch(port, k) \in DigitChars
      Split(i) == Valid(IF i = 0 THEN a ELSE SubSeq(a, 1, i - 1),
                        IF i = 0 THEN "" ELSE SubSeq(a, i + 1, Len(a)))
  IN Split(LastIndex(a, ":"))

\* url.parse(rawURL, viaRequest = false), the fragment already cut off
parse(raw) ==
  LET Authority(u0, a, i) ==
        IF ~validHost(IF i = 0 THEN a ELSE SubSeq(a, 1, i - 1)) THEN ParseFailed
        ELSE setPath([u0 EXCEPT !.Host = IF i = 0 THEN a ELSE SubSeq(a, 1, i - 1)],
                     IF i = 0 THEN "" ELSE SubSeq(a, i, Len(a)))
      Slashes(u0, a) == Authority(u0, a, Index(a, "/"))
      Rest(scheme, rest, u0) ==
        IF ~HasPrefix(rest, "/") /\ scheme # ""
        THEN [ok |-> TRUE, url |-> [u0 EXCEPT !.Opaque = rest]]
        ELSE IF ~HasPrefix(rest, "/") /\ Index(CutBefore(rest, "/"), ":") # 0
        THEN ParseFailed
        ELSE IF HasPrefix(rest, "//") /\ (scheme # "" \/ ~HasPrefix(rest, "///"))
        THEN Slashes(u0, SubSeq(rest, 3, Len(rest)))
        ELSE setPath([u0 EXCEPT !.OmitHost = (scheme # "" /\ HasPrefix(rest, "/"))], rest)
      Query(scheme, rest, force) ==
        Rest(scheme,
             IF force THEN SubSeq(rest, 1, Len(rest) - 1) ELSE CutBefore(rest, "?"),
             [EmptyURL EXCEPT !.Scheme = scheme,
                              !.ForceQuery = force,
                              !.RawQuery = IF force THEN "" ELSE CutAfter(rest, "?")])
      Scheme(sc) ==
        IF ~sc.ok THEN ParseFailed
        ELSE Query(sc.scheme, sc.rest, HasSuffix(sc.rest, "?") /\ Count(sc.rest, "?") = 1)
  IN IF raw = "*" THEN [ok |-> TRUE, url |-> [EmptyURL EXCEPT !.Path = "*"]]
     ELSE Scheme(getScheme(raw))

\* url.Parse: [ok, url]
Parse(raw) ==
  LET Fragment(r, frag) ==
        IF ~r.ok THEN ParseFailed
        ELSE IF frag = "" THEN r
        ELSE setFragment(r.url, frag)
  IN Fragment(parse(CutBefore(raw, "#")), CutAfter(raw, "#"))

\* URL.String
String(u) ==
  LET Join(head, auth, slash, path) ==
        IF u.Opaque # "" THEN head \o u.Opaque
        ELSE head \o auth \o slash
             \o (IF head \o auth \o slash = "" /\ Index(CutBefore(path, "/"), ":") # 0
                 THEN "./" ELSE "")
             \o path
      Body(head, auth, path) ==
        Join(head, auth,
             IF path # "" /\ Head(path) # "/" /\ u.Host # "" THEN "/" ELSE "",
             path)
  IN Body(IF u.Scheme # "" THEN u.Scheme \o ":" ELSE "",
          IF u.Scheme # "" \/ u.Host # ""
          THEN IF u.OmitHost /\ u.Host = "" THEN ""
               ELSE (IF u.Host # "" \/ u.Path # "" THEN "//" ELSE "") \o u.Host
          ELSE "",
          EscapedPath(u))
     \o (IF u.ForceQuery \/ u.RawQuery # "" THEN "?" \o u.RawQuery ELSE "")
     \o (IF u.Fragment # "" THEN "#" \o EscapedFragment(u) ELSE "")

\* the loop of url.resolvePath over the elements of the joined path:
\* dst is the text written so far (with its leading "/"), first as in the code
RECURSIVE resolveLoop(_, _, _)
resolveLoop(remaining, dst, first) ==
  LET Up(idx) == IF idx = 0 THEN "/" ELSE "/" \o SubSeq(Tail(dst), 1, idx - 1)
      Write(elem, idx) ==
        IF elem = "." THEN dst
        ELSE IF elem = ".." THEN Up(idx)
        ELSE (IF first THEN dst ELSE dst \o "/") \o elem
      First(elem, idx) ==
        IF elem = "." THEN FALSE
        ELSE IF elem = ".." THEN (IF idx = 0 THEN TRUE ELSE first)
        ELSE FALSE
      Loop(i, elem, dst2, first2) ==
        IF i # 0 THEN resolveLoop(SubSeq(remaining, i + 1, Len(remaining)), dst2, first2)
        ELSE IF elem = "." \/ elem = ".." THEN dst2 \o "/" ELSE dst2
      Elem(i, elem, idx) == Loop(i, elem, Write(elem, idx), First(elem, idx))
      Cut(i) == Elem(i, IF i = 0 THEN remaining ELSE SubSeq(remaining, 1, i - 1),
                     LastIndex(Tail(dst), "/"))
  IN Cut(Index(remaining, "/"))

\* url.resolvePath
resolvePath(base, ref) ==
  LET Clean(r) == IF Len(r) > 1 /\ Ch(r, 2) = "/" THEN Tail(r) ELSE r
      Resolve(full) == IF full = "" THEN "" ELSE Clean(resolveLoop(full, "/", TRUE))
  IN Resolve(IF ref = "" THEN base
             ELSE IF Head(ref) # "/" THEN SubSeq(base, 1, LastIndex(base, "/")) \o ref
             ELSE ref)

\* URL.ResolveReference
ResolveReference(u, ref) ==
  LET url0 == IF ref.Scheme = "" THEN [ref EXCEPT !.Scheme = u.Scheme] ELSE ref
      inherit == ref.Path = "" /\ ~ref.ForceQuery /\ ref.RawQuery = ""
      url1 == IF inherit
              THEN [url0 EXCEPT !.RawQuery = u.RawQuery,
                                !.Fragment = IF ref.Fragment = "" THEN u.Fragment ELSE @,
                                !.RawFragment = IF ref.Fragment = "" THEN u.RawFragment ELSE @]
              ELSE url0
  IN IF ref.Scheme # "" \/ ref.Host # ""
     THEN setPath(url0, resolvePath(EscapedPath(ref), "")).url
     ELSE IF ref.Opaque # ""
     THEN [url0 EXCEPT !.Host = "", !.Path = ""]
     ELSE IF ref.Path = "" /\ u.Opaque # ""
     THEN [url1 EXCEPT !.Opaque = u.Opaque, !.Host = "", !.Path = ""]
     ELSE setPath([url1 EXCEPT !.Host = u.Host],
                  resolvePath(EscapedPath(u), EscapedPath(ref))).url

\* URL.Parse: the reference parsed and resolved against u: [ok, url]
URLParse(u, ref) ==
  LET Resolve(r) ==
        IF ~r.ok THEN ParseFailed ELSE [ok |-> TRUE, url |-> ResolveReference(u, r.url)]
  IN Resolve(Parse(ref))

(***************************************************************************)
(* encoding/json: values, and decoding into the client's types             *)
(***************************************************************************)

\* a JSON value: its type t, the text s of a string, number or boolean,
\* the members o of an object, the elements a of an array
JNull == [t |-> "null", s |-> "", o |-> <<>>, a |-> <<>>]

JStr(x) == [t |-> "string", s |-> x, o |-> <<>>, a |-> <<>>]

JNum(n) == [t |-> "number", s |-> Itoa(n), o |-> <<>>, a |-> <<>>]

JBool(b) == [t |-> "bool", s |-> IF b THEN "true" ELSE "false", o |-> <<>>, a |-> <<>>]

JObj(f) == [t |-> "object", s |-> "", o |-> f, a |-> <<>>]

JArr(q) == [t |-> "array", s |-> "", o |-> <<>>, a |-> q]

\* a Go value json.Marshal rejects (a channel or a function in a map[string]interface{})
JUnsupported == [t |-> "unsupported", s |-> "", o |-> <<>>, a |-> <<>>]

\* a response body as the decoder meets it: "nil" (no Body at all), "empty" (no
\* bytes), "invalid" (bytes that are not JSON) or "json" with the value v
BodyNil == [raw |-> "nil", v |-> JNull]

BodyEmpty == [raw |-> "empty", v |-> JNull]

BodyInvalid == [raw |-> "invalid", v |-> JNull]

BodyJSON(j) == [raw |-> "json", v |-> j]

\* the zero value of a field of the given Go kind
Zero(kind) ==
  CASE kind = "string" -> JStr("")
    [] kind = "int"    -> JNum(0)
    [] kind = "bool"   -> JBool(FALSE)
    [] kind = "struct" -> JObj(<<>>)
    [] OTHER           -> JNull

\* whether the decoder stores JSON value j in a field of the given Go kind
\* (the elements of a slice and the members of a nested struct are taken as they come)
Accepts(kind, j) ==
  CASE kind = "string"  -> j.t = "string"
    [] kind = "*string" -> j.t = "string"
    [] kind = "int"     -> j.t = "number"
    [] kind = "bool"    -> j.t = "bool"
    [] kind = "slice"   -> j.t = "array"
    [] kind = "struct"  -> j.t = "object"
    [] kind = "*struct" -> j.t = "object"
    [] OTHER            -> FALSE

\* the decoder on one field of a fresh struct: a missing key and null leave the
\* zero value, a value of another type is an UnmarshalTypeError
DecodeField(kind, obj, key) ==
  IF key \notin DOMAIN obj \/ obj[key].t = "null" THEN [ok |-> TRUE, v |-> Zero(kind)]
  ELSE IF Accepts(kind, obj[key]) THEN [ok |-> TRUE, v |-> obj[key]]
  ELSE [ok |-> FALSE, v |-> Zero(kind)]

\* the decoder on a fresh struct whose fields (JSON name -> Go kind) are schema
DecodeStruct(schema, j) ==
  LET zero == [k \in DOMAIN schema |-> Zero(schema[k])]
  IN IF j.t = "null" THEN [ok |-> TRUE, v |-> zero]
     ELSE IF j.t # "object" THEN [ok |-> FALSE, v |-> zero]
     ELSE [ok |-> \A k \in DOMAIN schema : DecodeField(schema[k], j.o, k).ok,
           v |-> [k \in DOMAIN schema |-> DecodeField(schema[k], j.o, k).v]]

HealthCheckData == ("status" :> "string") @@ ("timestamp" :> "string")

AuthCheckData == ("team_id" :> "int") @@ ("timestamp" :> "string")

SendEmailData == ("request_id" :> "string") @@ ("accepted" :> "int") @@ ("rejected" :> "int")

ListEmailsData ==
  ("results" :> "slice") @@ ("total_count" :> "int") @@ ("pagination" :> "struct")

GetEmailData == ("results" :> "slice") @@ ("total_count" :> "int")

ListDomainsData == ("domains" :> "slice")

DomainDetail ==
  ("domain" :> "string") @@ ("status" :> "string") @@ ("status_label" :> "string")
  @@ ("can_send" :> "bool") @@ ("cname_status" :> "*string") @@ ("dkim_status" :> "*string")
  @@ ("tracking_domain" :> "*string") @@ ("dns" :> "*struct")
  @@ ("created_at" :> "string") @@ ("updated_at" :> "string")

CreateDomainData ==
  ("domain" :> "string") @@ ("status" :> "string") @@ ("status_label" :> "string")
  @@ ("dkim" :> "*struct")

ListWebhooksData == ("webhooks" :> "slice")

Webhook ==
  ("id" :> "string") @@ ("name" :> "string") @@ ("url" :> "string") @@ ("enabled" :> "bool")
  @@ ("event_types" :> "slice") @@ ("auth_type" :> "string")
  @@ ("has_auth_credentials" :> "bool") @@ ("last_successful_at" :> "*string")
  @@ ("last_failure_at" :> "*string") @@ ("last_status" :> "*string")

ListTemplatesData == ("templates" :> "slice") @@ ("pagination" :> "struct")

CreateTemplateData ==
  ("id" :> "int") @@ ("name" :> "string") @@ ("slug" :> "string") @@ ("project_id" :> "int")
  @@ ("folder_id" :> "int") @@ ("active_version" :> "int") @@ ("merge_tags" :> "slice")
  @@ ("created_at" :> "string")

\* the Data type of each response envelope
DataSchema(dest) ==
  CASE dest = "HealthCheckResponse"    -> HealthCheckData
    [] dest = "AuthCheckResponse"      -> AuthCheckData
    [] dest = "SendEmailResponse"      -> SendEmailData
    [] dest = "ListEmailsResponse"     -> ListEmailsData
    [] dest = "GetEmailResponse"       -> GetEmailData
    [] dest = "ListDomainsResponse"    -> ListDomainsData
    [] dest = "GetDomainResponse"      -> DomainDetail
    [] dest = "CreateDomainResponse"   -> CreateDomainData
    [] dest = "ListWebhooksResponse"   -> ListWebhooksData
    [] dest = "GetWebhookResponse"     -> Webhook
    [] dest = "ListTemplatesResponse"  -> ListTemplatesData
    [] dest = "CreateTemplateResponse" -> CreateTemplateData

\* a response envelope {Message, Data}; nil is the nil pointer the services
\* return beside an error
NilResult == [nil |-> TRUE, Message |-> "", Data |-> <<>>]

\* json.NewDecoder(resp.Body).Decode(v) for v a fresh envelope of type dest:
\* [ok, v]
DecodeEnvelope(dest, body) ==
  LET Envelope(m, d) ==
        [ok |-> m.ok /\ d.ok, v |-> [nil |-> FALSE, Message |-> m.v.s, Data |-> d.v]]
      Decode(schema, j, zero) ==
        IF body.raw # "json" THEN [ok |-> FALSE, v |-> zero]
        ELSE IF j.t = "null" THEN [ok |-> TRUE, v |-> zero]
        ELSE IF j.t # "object" THEN [ok |-> FALSE, v |-> zero]
        ELSE Envelope(DecodeField("string", j.o, "message"),
                      DecodeStruct(schema, IF "data" \in DOMAIN j.o THEN j.o["data"] ELSE JNull))
      Fresh(schema) ==
        Decode(schema, body.v,
               [nil |-> FALSE, Message |-> "", Data |-> DecodeStruct(schema, JNull).v])
  IN Fresh(DataSchema(dest))

(***************************************************************************)
(* errors                                                                  *)
(***************************************************************************)

\* the nil error
NoError == [type |-> "nil"]

\* *Error
APIError(status, message, code, errors) ==
  [type |-> "*Error", StatusCode |-> status, Message |-> message,
   ErrorCode |-> code, Errors |-> errors]

\* a variant of WrapError that makes an *Error of the failure
WrapErrorAsAPIError(prefix, cause) == APIError(0, prefix, cause, <<>>)

\* an error made by fmt.Errorf("lettr: ...: %w", err), or handed on as it came
\* (prefix ""): never an *Error
WrapError(prefix, cause) == [type |-> "error", prefix |-> prefix, cause |-> cause]

StatusNotFound == 404

StatusUnprocessableEntity == 422

StatusUnauthorized == 401

StatusNoContent == 204

\* http.StatusText: the codes net/http has a text for
StatusTexts ==
  (100 :> "Continue") @@ (101 :> "Switching Protocols") @@ (102 :> "Processing")
  @@ (103 :> "Early Hints") @@ (200 :> "OK") @@ (201 :> "Created") @@ (202 :> "Accepted")
  @@ (203 :> "Non-Authoritative Information") @@ (204 :> "No Content")
  @@ (205 :> "Reset Content") @@ (206 :> "Partial Content") @@ (207 :> "Multi-Status")
  @@ (208 :> "Already Reported") @@ (226 :> "IM Used") @@ (300 :> "Multiple Choices")
  @@ (301 :> "Moved Permanently") @@ (302 :> "Found") @@ (303 :> "See Other")
  @@ (304 :> "Not Modified") @@ (305 :> "Use Proxy") @@ (307 :> "Temporary Redirect")
  @@ (308 :> "Permanent Redirect") @@ (400 :> "Bad Request") @@ (401 :> "Unauthorized")
  @@ (402 :> "Payment Required") @@ (403 :> "Forbidden") @@ (404 :> "Not Found")
  @@ (405 :> "Method Not Allowed") @@ (406 :> "Not Acceptable")
  @@ (407 :> "Proxy Authentication Required") @@ (408 :> "Request Timeout")
  @@ (409 :> "Conflict") @@ (410 :> "Gone") @@ (411 :> "Length Required")
  @@ (412 :> "Precondition Failed") @@ (413 :> "Request Entity Too Large")
  @@ (414 :> "Request URI Too Long") @@ (415 :> "Unsupported Media Type")
  @@ (416 :> "Requested Range Not Satisfiable") @@ (417 :> "Expectation Failed")
  @@ (418 :> "I'm a teapot") @@ (421 :> "Misdirected Request")
  @@ (422 :> "Unprocessable Entity") @@ (423 :> "Locked") @@ (424 :> "Failed Dependency")
  @@ (425 :> "Too Early") @@ (426 :> "Upgrade Required") @@ (428 :> "Precondition Required")
  @@ (429 :> "Too Many Requests") @@ (431 :> "Request Header Fields Too Large")
  @@ (451 :> "Unavailable For Legal Reasons") @@ (500 :> "Internal Server Error")
  @@ (501 :> "Not Implemented") @@ (502 :> "Bad Gateway") @@ (503 :> "Service Unavailable")
  @@ (504 :> "Gateway Timeout") @@ (505 :> "HTTP Version Not Supported")
  @@ (506 :> "Variant Also Negotiates") @@ (507 :> "Insufficient Storage")
  @@ (508 :> "Loop Detected") @@ (510 :> "Not Extended")
  @@ (511 :> "Network Authentication Required")

\* http.StatusText: the empty string for a code net/http does not know
StatusText(code) == IF code \in DOMAIN StatusTexts THEN StatusTexts[code] ELSE ""

IsNotFound(err) == err.type = "*Error" /\ err.StatusCode = StatusNotFound

\* a variant of IsValidationError that looks for 400
IsValidationErrorBadRequest(err) == err.type = "*Error" /\ err.StatusCode = 400

IsValidationError(err) == err.type = "*Error" /\ err.StatusCode = StatusUnprocessableEntity

IsUnauthorized(err) == err.type = "*Error" /\ err.StatusCode = StatusUnauthorized

\* the three predicates applied to one error
Classification(err) ==
  [notFound |-> IsNotFound(err), validation |-> IsValidationError(err),
   unauthorized |-> IsUnauthorized(err)]

\* a variant of FieldErrors that stores each list of messages backwards
FieldErrorsReversed(j) ==
  [k \in DOMAIN j.o |->
     [i \in 1..Len(j.o[k].a) |-> j.o[k].a[Len(j.o[k].a) + 1 - i].s]]

\* the map[string][]string a JSON object of string arrays decodes to
FieldErrors(j) ==
  [k \in DOMAIN j.o |-> [i \in 1..Len(j.o[k].a) |-> j.o[k].a[i].s]]

\* whether the decoder stores JSON value j in a map[string][]string
AcceptsFieldErrors(j) ==
  /\ j.t = "object"
  /\ \A k \in DOMAIN j.o :
       /\ j.o[k].t = "array"
       /\ \A i \in 1..Len(j.o[k].a) : j.o[k].a[i].t = "string"

\* json.NewDecoder(resp.Body).Decode(apiErr): [ok, v]. StatusCode carries the
\* tag json:"-", so no member of the body reaches it
DecodeError(apiErr, body) ==
  LET Fields(m, c, hasErrs, errsOK, errs) ==
        [ok |-> m.ok /\ c.ok /\ (~hasErrs \/ errsOK),
         v |-> [apiErr EXCEPT !.Message = m.v.s,
                              !.ErrorCode = c.v.s,
                              !.Errors = IF hasErrs /\ errsOK THEN FieldErrors(errs) ELSE @]]
      Errs(m, c, errs) ==
        Fields(m, c, errs.t # "null", AcceptsFieldErrors(errs), errs)
      Decode(j) ==
        IF body.raw # "json" THEN [ok |-> FALSE, v |-> apiErr]
        ELSE IF j.t = "null" THEN [ok |-> TRUE, v |-> apiErr]
        ELSE IF j.t # "object" THEN [ok |-> FALSE, v |-> apiErr]
        ELSE Errs(DecodeField("string", j.o, "message"),
                  DecodeField("string", j.o, "error_code"),
                  IF "errors" \in DOMAIN j.o THEN j.o["errors"] ELSE JNull)
  IN Decode(body.v)

parseError(resp) ==
  LET Parsed(text, d) ==
        [d.v EXCEPT !.Message = IF ~d.ok \/ d.v.Message = "" THEN text ELSE @]
      Decode(apiErr, text) ==
        IF resp.Body.raw = "nil" THEN [apiErr EXCEPT !.Message = text]
        ELSE Parsed(text, DecodeError(apiErr, resp.Body))
  IN Decode(APIError(resp.StatusCode, "", "", <<>>), StatusText(resp.StatusCode))

(***************************************************************************)
(* the client                                                              *)
(***************************************************************************)

VARIABLES
  credential,  \* the API key the constructor was given
  given,       \* the *http.Client the constructor was given
  httpClient,  \* Client.httpClient
  services,    \* Client.Emails, Domains, Webhooks, Templates: the client each holds
  running,     \* the calls goroutines have under way on the client at once
  apiKey,      \* Client.apiKey
  baseURL,     \* Client.baseURL
  userAgent,   \* Client.userAgent
  server,      \* what Client.httpClient answers a request with
  call,        \* the caller's last call and its arguments
  wire,        \* the requests that call handed to httpClient.Do
  ret,         \* what that call returned: the result and the error
  class,       \* IsNotFound, IsValidationError, IsUnauthorized of the error at hand
  trace        \* what Client.do did with the response

vars ==
  <<credential, given, httpClient, services, running, apiKey, baseURL, userAgent, server,
    call, wire, ret, class, trace>>

config == <<credential, given, httpClient, services, apiKey, baseURL, userAgent, server>>

Version == "0.1.0"

defaultBaseURL == "https://app.lettr.com/api/"

contentType == "application/json"

\* http.Header
HeaderSet(h, name, value) ==
  [n \in DOMAIN h \cup {name} |-> IF n = name THEN value ELSE h[n]]

HeaderDel(h, name) == [n \in DOMAIN h \ {name} |-> h[n]]

HeaderGet(h, name) == IF name \in DOMAIN h THEN h[name] ELSE ""

\* the body argument of newRequest: an interface{} that is nil (present FALSE)
\* or holds a *SendEmailRequest, *CreateDomainRequest or *CreateTemplateRequest:
\* params.nil is a nil pointer, params.f the fields by JSON name
NoParams == [type |-> "", nil |-> TRUE, f |-> <<>>]

NoBody == [present |-> FALSE, params |-> NoParams]

BodyOf(params) == [present |-> TRUE, params |-> params]

Field(kind, omitempty) == [kind |-> kind, omitempty |-> omitempty]

SendEmailRequest ==
  ("from" :> Field("string", FALSE)) @@ ("from_name" :> Field("string", TRUE))
  @@ ("to" :> Field("slice", FALSE)) @@ ("subject" :> Field("string", FALSE))
  @@ ("html" :> Field("string", TRUE)) @@ ("text" :> Field("string", TRUE))
  @@ ("template_slug" :> Field("string", TRUE)) @@ ("template_version" :> Field("*int", TRUE))
  @@ ("project_id" :> Field("*int", TRUE)) @@ ("attachments" :> Field("slice", TRUE))
  @@ ("substitution_data" :> Field("map", TRUE)) @@ ("metadata" :> Field("map", TRUE))
  @@ ("options" :> Field("*struct", TRUE))

CreateDomainRequest == ("domain" :> Field("string", FALSE))

CreateTemplateRequest ==
  ("name" :> Field("string", FALSE)) @@ ("html" :> Field("string", TRUE))
  @@ ("json" :> Field("string", TRUE)) @@ ("project_id" :> Field("*int", TRUE))
  @@ ("folder_id" :> Field("*int", TRUE))

RequestFields(type) ==
  CASE type = "SendEmailRequest"      -> SendEmailRequest
    [] type = "CreateDomainRequest"   -> CreateDomainRequest
    [] type = "CreateTemplateRequest" -> CreateTemplateRequest

\* a request value with the given fields set and the others at their zero value
Params(type, set) ==
  [type |-> type, nil |-> FALSE,
   f |-> [k \in DOMAIN RequestFields(type) |->
            IF k \in DOMAIN set THEN set[k]
            ELSE IF RequestFields(type)[k].kind = "string" THEN JStr("") ELSE JNull]]

\* encoding/json's isEmptyValue, which decides omitempty
IsEmptyValue(kind, v) ==
  \/ v.t = "null"
  \/ kind = "string" /\ v.s = ""
  \/ kind \in {"slice", "map"} /\ v.t = "array" /\ v.a = <<>>
  \/ kind \in {"slice", "map"} /\ v.t = "object" /\ DOMAIN v.o = {}

Unsupported(v) ==
  \/ v.t = "unsupported"
  \/ v.t = "object" /\ \E k \in DOMAIN v.o : v.o[k].t = "unsupported"

\* SendEmailOptions, the struct the field options points to
SendEmailOptions ==
  ("click_tracking" :> Field("*bool", TRUE)) @@ ("open_tracking" :> Field("*bool", TRUE))
  @@ ("transactional" :> Field("*bool", TRUE))

\* a variant of MarshalField that writes a nil pointer of the options as null
MarshalFieldWithNulls(kind, v) == v

\* the JSON json.Marshal writes for a field that is kept: the struct behind
\* options is written field by field, under omitempty again
MarshalField(kind, v) ==
  IF kind = "*struct" /\ v.t = "object"
  THEN JObj([k \in {n \in DOMAIN v.o :
                      \/ n \notin DOMAIN SendEmailOptions
                      \/ ~SendEmailOptions[n].omitempty
                      \/ ~IsEmptyValue(SendEmailOptions[n].kind, v.o[n])} |-> v.o[k]])
  ELSE v

\* json.Marshal(body): [ok, json]
Marshal(params) ==
  LET fields == RequestFields(params.type)
      keep == {k \in DOMAIN fields :
                 ~fields[k].omitempty \/ ~IsEmptyValue(fields[k].kind, params.f[k])}
  IN IF params.nil THEN [ok |-> TRUE, json |-> JNull]
     ELSE [ok |-> \A k \in keep : ~Unsupported(params.f[k]),
           json |-> JObj([k \in keep |-> MarshalField(fields[k].kind, params.f[k])])]

\* *http.Request
NoRequest == [Method |-> "", URL |-> EmptyURL, Header |-> <<>>, Body |-> JNull, HasBody |-> FALSE]

\* a variant of withContentType that sets the header on every request
withContentTypeAlways(h, body) == HeaderSet(h, "Content-Type", contentType)

\* if body != nil { req.Header.Set("Content-Type", contentType) }
withContentType(h, body) ==
  IF body.present THEN HeaderSet(h, "Content-Type", contentType) ELSE h

\* Client.newRequest: [err, req]. http.NewRequestWithContext refuses a nil
\* context and parses the string form of the resolved address again
newRequest(ctx, method, path, body) ==
  LET Request(url, m, h) ==
        [err |-> NoError,
         req |-> [Method |-> method, URL |-> url,
                  Header |-> withContentType(h, body),
                  Body |-> IF body.present THEN m.json ELSE JNull,
                  HasBody |-> body.present]]
      WithContext(again, m) ==
        IF ~again.ok THEN [err |-> WrapError("", "parse"), req |-> NoRequest]
        ELSE Request(again.url, m,
                     HeaderSet(HeaderSet(HeaderSet(<<>>,
                       "Accept", contentType),
                       "User-Agent", userAgent),
                       "Authorization", "Bearer " \o apiKey))
      Marshalled(u, m) ==
        IF body.present /\ ~m.ok
        THEN [err |-> WrapError("lettr: failed to marshal request body",
                                "json: unsupported type"),
              req |-> NoRequest]
        ELSE IF ctx = "nil"
        THEN [err |-> WrapError("", "net/http: nil Context"), req |-> NoRequest]
        ELSE WithContext(Parse(String(u)), m)
      Resolved(u) ==
        IF ~u.ok THEN [err |-> WrapError("lettr: invalid path", "parse"), req |-> NoRequest]
        ELSE Marshalled(u.url, Marshal(body.params))
  IN Resolved(URLParse(baseURL, path))

NoTrace == [responded |-> FALSE, parsed |-> FALSE, decoded |-> FALSE, closed |-> 0]

\* the envelope a service declares before the call (var resp T)
ZeroEnvelope(v) == DecodeEnvelope(v, BodyJSON(JNull)).v

\* a variant of NotSuccess that takes only 4xx and 5xx for failures
NotSuccessFrom400(code) == code >= 400

\* the status test of Client.do: the response is not a 2xx
NotSuccess(code) == code < 200 \/ code >= 300

\* a variant of ShouldDecode that decodes a 204 response too
ShouldDecodeAnyStatus(v, code) == v # "nil"

\* the decode test of Client.do: a destination was given, and the status is not 204
ShouldDecode(v, code) == v # "nil" /\ code # StatusNoContent

\* a variant of deferClose that leaves the body open
deferCloseForgotten(t) == t

\* defer resp.Body.Close(): the body is closed when do returns, on every path
deferClose(t) == [t EXCEPT !.closed = @ + 1]

\* Client.do: [err, v, trace]; v is the destination after the call ("nil": none).
\* http.Client.Do fails by itself on an address it cannot send to
do(req, v) ==
  LET got == deferClose([NoTrace EXCEPT !.responded = TRUE])
      Decoded(dec) ==
        [err |-> IF dec.ok THEN NoError
                 ELSE WrapError("lettr: failed to decode response", "json"),
         v |-> dec.v, trace |-> [got EXCEPT !.decoded = TRUE]]
      Do(resp, dest) ==
        IF req.URL.Scheme \notin {"http", "https"} \/ req.URL.Host = ""
        THEN [err |-> WrapError("lettr: request failed", "unsupported protocol scheme"),
              v |-> dest, trace |-> NoTrace]
        ELSE IF server.kind = "fail"
        THEN [err |-> WrapError("lettr: request failed", server.cause),
              v |-> dest, trace |-> NoTrace]
        ELSE IF NotSuccess(resp.StatusCode)
        THEN [err |-> parseError(resp), v |-> dest, trace |-> [got EXCEPT !.parsed = TRUE]]
        ELSE IF ShouldDecode(v, resp.StatusCode)
        THEN Decoded(DecodeEnvelope(v, resp.Body))
        ELSE [err |-> NoError, v |-> dest, trace |-> got]
  IN Do([StatusCode |-> server.StatusCode, Body |-> server.Body],
        IF v = "nil" THEN NilResult ELSE ZeroEnvelope(v))

\* ListEmailsParams, ListTemplatesParams; nil is the nil pointer
NoListEmailsParams ==
  [nil |-> TRUE, PerPage |-> 0, Cursor |-> "", Recipients |-> "", From |-> "", To |-> ""]

NoListTemplatesParams == [nil |-> TRUE, ProjectID |-> 0, PerPage |-> 0, Page |-> 0]

NoCall ==
  [op |-> "", ctx |-> "", id |-> "", rawURL |-> "", emails |-> NoListEmailsParams,
   templates |-> NoListTemplatesParams, params |-> NoParams, err |-> NoError]

\* a variant of Return in which the address the request was resolved to is
\* stored as the base of the client
ReturnStoringResolvedURL(c, reqs, result, err, tr) ==
  /\ call' = c
  /\ wire' = reqs
  /\ ret' = [result |-> result, err |-> err]
  /\ class' = Classification(err)
  /\ trace' = tr
  /\ baseURL' = IF reqs # <<>> THEN reqs[1].URL ELSE baseURL
  /\ UNCHANGED <<credential, given, httpClient, services, running, apiKey, userAgent, server>>

\* the call returns: its requests, its result and its error
Return(c, reqs, result, err, tr) ==
  /\ call' = c
  /\ wire' = reqs
  /\ ret' = [result |-> result, err |-> err]
  /\ class' = Classification(err)
  /\ trace' = tr
  /\ UNCHANGED <<config, running>>

\* a variant of Call that sends the request once more when the transport failed
CallSendingAgain(c, nr, v) ==
  LET Done(d) ==
        IF d.err.type # "nil" /\ ~d.trace.responded
        THEN Return(c, <<nr.req, nr.req>>, NilResult, d.err, d.trace)
        ELSE IF d.err.type # "nil" THEN Return(c, <<nr.req>>, NilResult, d.err, d.trace)
        ELSE Return(c, <<nr.req>>, d.v, NoError, d.trace)
  IN IF nr.err.type # "nil" THEN Return(c, <<>>, NilResult, nr.err, NoTrace)
     ELSE Done(do(nr.req, v))

\* a variant of Call that drops the error of newRequest and hands its request on
CallWithUnbuiltRequest(c, nr, v) ==
  LET Done(d) ==
        IF d.err.type # "nil" THEN Return(c, <<nr.req>>, NilResult, d.err, d.trace)
        ELSE Return(c, <<nr.req>>, d.v, NoError, d.trace)
  IN Done(do(nr.req, v))

\* a variant of Call that returns the envelope do was given beside the error
CallReturningEnvelopeWithError(c, nr, v) ==
  LET Done(d) == Return(c, <<nr.req>>, d.v, d.err, d.trace)
  IN IF nr.err.type # "nil" THEN Return(c, <<>>, NilResult, nr.err, NoTrace)
     ELSE Done(do(nr.req, v))

\* the common end of the operations: the error of newRequest (nothing is sent),
\* or the request handed to Client.do and then nil and the error of do, or the
\* destination v it filled
Call(c, nr, v) ==
  LET Done(d) ==
        IF d.err.type # "nil" THEN Return(c, <<nr.req>>, NilResult, d.err, d.trace)
        ELSE Return(c, <<nr.req>>, d.v, NoError, d.trace)
  IN IF nr.err.type # "nil" THEN Return(c, <<>>, NilResult, nr.err, NoTrace)
     ELSE Done(do(nr.req, v))

(***************************************************************************)
(* the operations                                                          *)
(***************************************************************************)

\* the timeout, in seconds, of the *http.Client the constructors make
DefaultTimeout == 30

\* an *http.Client: the nil pointer, or one with the given timeout in seconds
NoHTTPClient == [nil |-> TRUE, Timeout |-> 0]

HTTPClient(timeout) == [nil |-> FALSE, Timeout |-> timeout]

\* a variant of Services that leaves Templates nil
ServicesWithoutTemplates(c) ==
  [Emails |-> c, Domains |-> c, Webhooks |-> c, Templates |-> "nil"]

\* c.Emails = &EmailService{client: c} and the like: the client each service
\* holds ("nil": there is no such service)
Services(c) == [Emails |-> c, Domains |-> c, Webhooks |-> c, Templates |-> c]

\* NewClientWithHTTPClient: the fields of the client it returns
NewClientWithHTTPClient(key, h) ==
  [httpClient |-> IF h.nil THEN HTTPClient(DefaultTimeout) ELSE h,
   apiKey |-> TrimSpace(key), baseURL |-> Parse(defaultBaseURL).url,
   userAgent |-> "lettr-go/" \o Version, services |-> Services("client")]

\* NewClient
NewClient(key) == NewClientWithHTTPClient(key, HTTPClient(DefaultTimeout))

\* a variant of withTrailingSeparator that appends a separator in every case
withSeparatorAppended(u) == [u EXCEPT !.Path = @ \o "/"]

\* the path SetBaseURL stores: a separator is appended unless one ends it
withTrailingSeparator(u) ==
  IF HasSuffix(u.Path, "/") THEN u ELSE [u EXCEPT !.Path = @ \o "/"]

\* Client.SetBaseURL
SetBaseURL(rawURL) ==
  LET Set(r, err) ==
        /\ baseURL' = IF r.ok THEN withTrailingSeparator(r.url) ELSE baseURL
        /\ call' = [NoCall EXCEPT !.op = "SetBaseURL", !.rawURL = rawURL]
        /\ wire' = <<>>
        /\ ret' = [result |-> NilResult, err |-> err]
        /\ class' = Classification(err)
        /\ trace' = NoTrace
        /\ UNCHANGED <<credential, given, httpClient, services, running, apiKey, userAgent, server>>
      Parsed(r) == Set(r, IF r.ok THEN NoError ELSE WrapError("", "parse"))
  IN Parsed(Parse(rawURL))

\* a variant of withoutAuthorization that leaves the header where it is
withAuthorizationKept(nr) == nr

\* req.Header.Del("Authorization") on the request newRequest returned
withoutAuthorization(nr) == [nr EXCEPT !.req.Header = HeaderDel(@, "Authorization")]

\* Client.HealthCheck
HealthCheck(ctx) ==
  Call([NoCall EXCEPT !.op = "HealthCheck", !.ctx = ctx],
       withoutAuthorization(newRequest(ctx, "GET", "health", NoBody)),
       "HealthCheckResponse")

\* Client.ValidateAPIKey
ValidateAPIKey(ctx) ==
  Call([NoCall EXCEPT !.op = "ValidateAPIKey", !.ctx = ctx],
       newRequest(ctx, "GET", "auth/check", NoBody),
       "AuthCheckResponse")

\* EmailService.Send
EmailsSend(ctx, params) ==
  /\ services.Emails = "client"
  /\ Call([NoCall EXCEPT !.op = "Emails.Send", !.ctx = ctx, !.params = params],
          newRequest(ctx, "POST", "emails", BodyOf(params)),
          "SendEmailResponse")

\* url.Values.Set
ValuesSet(q, key, value) == [k \in DOMAIN q \cup {key} |-> IF k = key THEN value ELSE q[k]]

\* the keys the services set, in the order url.Values.Encode sorts them
SortedKeys == <<"cursor", "from", "page", "per_page", "project_id", "recipients", "to">>

RECURSIVE encodeFrom(_, _, _)
encodeFrom(q, i, buf) ==
  IF i > Len(SortedKeys) THEN buf
  ELSE IF SortedKeys[i] \in DOMAIN q
  THEN encodeFrom(q, i + 1,
         (IF buf = "" THEN "" ELSE buf \o "&")
         \o QueryEscape(SortedKeys[i]) \o "=" \o QueryEscape(q[SortedKeys[i]]))
  ELSE encodeFrom(q, i + 1, buf)

\* url.Values.Encode
Encode(q) == encodeFrom(q, 1, "")

\* URL.Query() as the server of the tests reads the request: the pairs
\* <<key, value>> in the order of the query string, a pair with an escape that
\* does not decode left out
RECURSIVE parseQuery(_)
parseQuery(query) ==
  LET Pair(k, v) == IF k.ok /\ v.ok THEN << <<k.s, v.s>> >> ELSE <<>>
      Item(kv) ==
        IF kv = "" THEN <<>>
        ELSE Pair(QueryUnescape(CutBefore(kv, "=")), QueryUnescape(CutAfter(kv, "=")))
  IN IF query = "" THEN <<>>
     ELSE Item(CutBefore(query, "&")) \o parseQuery(CutAfter(query, "&"))

\* q.Set(key, value) under the condition the service puts before it
SetIf(q, cond, key, value) == IF cond THEN ValuesSet(q, key, value) ELSE q

\* path, and "?" and the encoded query when there is one
WithQuery(path, encoded) == IF encoded # "" THEN path \o "?" \o encoded ELSE path

\* the path EmailService.List builds
EmailsListPath(params) ==
  IF params.nil THEN "emails"
  ELSE WithQuery("emails",
         Encode(SetIf(SetIf(SetIf(SetIf(SetIf(<<>>,
           params.PerPage > 0, "per_page", Itoa(params.PerPage)),
           params.Cursor # "", "cursor", params.Cursor),
           params.Recipients # "", "recipients", params.Recipients),
           params.From # "", "from", params.From),
           params.To # "", "to", params.To)))

\* EmailService.List
EmailsList(ctx, params) ==
  /\ services.Emails = "client"
  /\ Call([NoCall EXCEPT !.op = "Emails.List", !.ctx = ctx, !.emails = params],
          newRequest(ctx, "GET", EmailsListPath(params), NoBody),
          "ListEmailsResponse")

\* EmailService.Get
EmailsGet(ctx, requestID) ==
  /\ services.Emails = "client"
  /\ Call([NoCall EXCEPT !.op = "Emails.Get", !.ctx = ctx, !.id = requestID],
          newRequest(ctx, "GET", "emails/" \o PathEscape(requestID), NoBody),
          "GetEmailResponse")

\* DomainService.List
DomainsList(ctx) ==
  /\ services.Domains = "client"
  /\ Call([NoCall EXCEPT !.op = "Domains.List", !.ctx = ctx],
          newRequest(ctx, "GET", "domains", NoBody),
          "ListDomainsResponse")

\* DomainService.Get
DomainsGet(ctx, domain) ==
  /\ services.Domains = "client"
  /\ Call([NoCall EXCEPT !.op = "Domains.Get", !.ctx = ctx, !.id = domain],
          newRequest(ctx, "GET", "domains/" \o PathEscape(domain), NoBody),
          "GetDomainResponse")

\* DomainService.Create
DomainsCreate(ctx, params) ==
  /\ services.Domains = "client"
  /\ Call([NoCall EXCEPT !.op = "Domains.Create", !.ctx = ctx, !.params = params],
          newRequest(ctx, "POST", "domains", BodyOf(params)),
          "CreateDomainResponse")

\* a variant of DomainsDelete that sends GET
DomainsDeleteByGet(ctx, domain) ==
  Call([NoCall EXCEPT !.op = "Domains.Delete", !.ctx = ctx, !.id = domain],
       newRequest(ctx, "GET", "domains/" \o PathEscape(domain), NoBody),
       "nil")

\* DomainService.Delete: do is given no destination, and only its error is returned
DomainsDelete(ctx, domain) ==
  /\ services.Domains = "client"
  /\ Call([NoCall EXCEPT !.op = "Domains.Delete", !.ctx = ctx, !.id = domain],
          newRequest(ctx, "DELETE", "domains/" \o PathEscape(domain), NoBody),
          "nil")

\* WebhookService.List
WebhooksList(ctx) ==
  /\ services.Webhooks = "client"
  /\ Call([NoCall EXCEPT !.op = "Webhooks.List", !.ctx = ctx],
          newRequest(ctx, "GET", "webhooks", NoBody),
          "ListWebhooksResponse")

\* WebhookService.Get
WebhooksGet(ctx, webhookID) ==
  /\ services.Webhooks = "client"
  /\ Call([NoCall EXCEPT !.op = "Webhooks.Get", !.ctx = ctx, !.id = webhookID],
          newRequest(ctx, "GET", "webhooks/" \o PathEscape(webhookID), NoBody),
          "GetWebhookResponse")

\* the path TemplateService.List builds
TemplatesListPath(params) ==
  IF params.nil THEN "templates"
  ELSE WithQuery("templates",
         Encode(SetIf(SetIf(SetIf(<<>>,
           params.ProjectID > 0, "project_id", Itoa(params.ProjectID)),
           params.PerPage > 0, "per_page", Itoa(params.PerPage)),
           params.Page > 0, "page", Itoa(params.Page))))

\* TemplateService.List
TemplatesList(ctx, params) ==
  /\ services.Templates = "client"
  /\ Call([NoCall EXCEPT !.op = "Templates.List", !.ctx = ctx, !.templates = params],
          newRequest(ctx, "GET", TemplatesListPath(params), NoBody),
          "ListTemplatesResponse")

\* TemplateService.Create
TemplatesCreate(ctx, params) ==
  /\ services.Templates = "client"
  /\ Call([NoCall EXCEPT !.op = "Templates.Create", !.ctx = ctx, !.params = params],
          newRequest(ctx, "POST", "templates", BodyOf(params)),
          "CreateTemplateResponse")

\* a caller asks the three predicates about an error value of its own
Classify(err) ==
  /\ call' = [NoCall EXCEPT !.op = "Classify", !.err = err]
  /\ wire' = <<>>
  /\ ret' = [result |-> NilResult, err |-> NoError]
  /\ class' = Classification(err)
  /\ trace' = NoTrace
  /\ UNCHANGED <<config, running>>

(***************************************************************************)
(* the callers' inputs and the servers' answers                            *)
(***************************************************************************)

RECURSIVE StringsOfLen(_, _)
StringsOfLen(alphabet, n) ==
  IF n = 0 THEN {""}
  ELSE {s \o c : s \in StringsOfLen(alphabet, n - 1), c \in alphabet}

StringsUpTo(alphabet, n) == UNION {StringsOfLen(alphabet, k) : k \in 0..n}

Credentials == {"test-api-key", "  test-api-key\t", ""}

\* a context.Context: nil, or one that is not cancelled
Contexts == {"nil", "background"}

Statuses == {199, 200, 201, 204, 299, 300, 401, 404, 422, 499, 500, 520}

DomainPayload ==
  JObj(("message" :> JStr("Domain created successfully."))
       @@ ("data" :> JObj(("domain" :> JStr("example.com")) @@ ("status" :> JStr("pending"))
                          @@ ("status_label" :> JStr("Pending Review")))))

ValidationBody ==
  JObj(("message" :> JStr("Validation failed.")) @@ ("error_code" :> JStr("validation_error"))
       @@ ("errors" :> JObj("from" :> JArr(<<JStr("The sender email address is required."),
                                            JStr("The sender must be verified.")>>))))

Bodies ==
  {BodyEmpty, BodyInvalid, BodyJSON(JNull), BodyJSON(JStr("oops")),
   BodyJSON(DomainPayload),
   BodyJSON(JObj(("message" :> JStr("ok")) @@ ("data" :> JObj("status" :> JNum(5))))),
   BodyJSON(JObj(("message" :> JStr("ok")) @@ ("data" :> JStr("none")))),
   BodyJSON(ValidationBody),
   BodyJSON(JObj(("error_code" :> JStr("validation_error"))
                 @@ ("errors" :> JObj("from" :> JArr(<<JStr("required")>>))))),
   BodyJSON(JObj(("message" :> JStr("")) @@ ("error_code" :> JStr("not_found")))),
   BodyJSON(JObj(("message" :> JStr("")) @@ ("error_code" :> JStr("validation_error"))
                 @@ ("errors" :> JObj("to" :> JArr(<<JStr("required")>>))))),
   BodyJSON(JObj(("message" :> JStr("Email not found.")) @@ ("StatusCode" :> JNum(200)))),
   BodyJSON(JObj(("message" :> JNum(5)) @@ ("error_code" :> JStr("not_found")))),
   BodyJSON(JObj(("message" :> JStr("Invalid API key.")) @@ ("errors" :> JStr("oops"))))}

Response(status, body) == [kind |-> "resp", cause |-> "", StatusCode |-> status, Body |-> body]

Failure(cause) == [kind |-> "fail", cause |-> cause, StatusCode |-> 0, Body |-> BodyEmpty]

Failures ==
  {Failure(c) : c \in {"context canceled", "context deadline exceeded",
                       "dial tcp: connection refused"}}

Servers == {Response(st, b) : st \in Statuses, b \in Bodies} \cup Failures

TestID == "req-123"

Identifiers == {TestID}

TestSend ==
  Params("SendEmailRequest",
         ("from" :> JStr("sender@example.com")) @@ ("to" :> JArr(<<JStr("recipient@example.com")>>))
         @@ ("subject" :> JStr("Hello")) @@ ("html" :> JStr("<h1>Hello!</h1>")))

SendParams ==
  {[NoParams EXCEPT !.type = "SendEmailRequest"],
   TestSend,
   Params("SendEmailRequest",
          ("from" :> JStr("sender@example.com"))
          @@ ("substitution_data" :> JObj("k" :> JUnsupported)))}

TestDomain == Params("CreateDomainRequest", "domain" :> JStr("example.com"))

DomainParams == {TestDomain}

TestTemplate ==
  Params("CreateTemplateRequest",
         ("name" :> JStr("Welcome Email")) @@ ("html" :> JStr("<h1>Hello</h1>")))

TemplateParams == {TestTemplate}

TestEmails == [NoListEmailsParams EXCEPT !.nil = FALSE, !.PerPage = 10]

EmailsParams == {NoListEmailsParams, TestEmails}

TestTemplates == [NoListTemplatesParams EXCEPT !.nil = FALSE, !.Page = 2]

TemplatesParams == {TestTemplates}

BaseURLs == {"http://127.0.0.1:8080", "https://custom.example.com/api", "://"}

(***************************************************************************)
(* the specification: any sequence of calls on a client                    *)
(***************************************************************************)

\* the goroutines that may use the client at once
MaxGoroutines == 2

Goroutines == 1 .. MaxGoroutines

\* a goroutine that runs no call
NotRunning == [op |-> "", rawURL |-> "", ctx |-> "", pc |-> "", req |-> NoRequest]

\* the client NewClientWithHTTPClient(key, h) returns, its transport answering
\* as srv, no call made
ConstructedWith(key, h, srv, c) ==
  LET Fields(client) ==
        /\ credential = key
        /\ given = h
        /\ httpClient = client.httpClient
        /\ services = client.services
        /\ running = [g \in Goroutines |-> NotRunning]
        /\ apiKey = client.apiKey
        /\ baseURL = client.baseURL
        /\ userAgent = client.userAgent
        /\ server = srv
        /\ call = c
        /\ wire = <<>>
        /\ ret = [result |-> NilResult, err |-> NoError]
        /\ class = Classification(NoError)
        /\ trace = NoTrace
  IN Fields(NewClientWithHTTPClient(key, h))

\* the client NewClient(key) returns
Constructed(key, srv, c) == ConstructedWith(key, HTTPClient(DefaultTimeout), srv, c)

\* the key and the answer of the repository's tests
TestKey == "test-api-key"

TestServer == Response(201, BodyJSON(DomainPayload))

\* the servers the sequences of calls run against
SequenceServers ==
  {TestServer, Response(204, BodyEmpty), Response(404, BodyJSON(ValidationBody)),
   Response(200, BodyInvalid), Failure("context canceled")}

\* the *http.Client a caller may give: none, or one with a timeout of its own
HTTPClients == {NoHTTPClient, HTTPClient(5)}

Init ==
  \/ \E key \in Credentials, srv \in SequenceServers :
       /\ key = TestKey \/ srv = TestServer
       /\ Constructed(key, srv, NoCall)
  \/ \E h \in HTTPClients : ConstructedWith(TestKey, h, TestServer, NoCall)

Next ==
  \/ \E rawURL \in BaseURLs : SetBaseURL(rawURL)
  \/ \E ctx \in Contexts : HealthCheck(ctx)
  \/ \E ctx \in Contexts : ValidateAPIKey(ctx)
  \/ \E ctx \in Contexts, params \in SendParams : EmailsSend(ctx, params)
  \/ \E ctx \in Contexts, params \in EmailsParams : EmailsList(ctx, params)
  \/ \E ctx \in Contexts, id \in Identifiers : EmailsGet(ctx, id)
  \/ \E ctx \in Contexts : DomainsList(ctx)
  \/ \E ctx \in Contexts, id \in Identifiers : DomainsGet(ctx, id)
  \/ \E ctx \in Contexts, params \in DomainParams : DomainsCreate(ctx, params)
  \/ \E ctx \in Contexts, id \in Identifiers : DomainsDelete(ctx, id)
  \/ \E ctx \in Contexts : WebhooksList(ctx)
  \/ \E ctx \in Contexts, id \in Identifiers : WebhooksGet(ctx, id)
  \/ \E ctx \in Contexts, params \in TemplatesParams : TemplatesList(ctx, params)
  \/ \E ctx \in Contexts, params \in TemplateParams : TemplatesCreate(ctx, params)

Spec == Init /\ [][Next]_vars

(***************************************************************************)
(* one call of each operation against every answer of the server           *)
(***************************************************************************)

\* no call has been made on the client
Idle == call.op = ""

InitResponses == \E srv \in Servers : Constructed(TestKey, srv, NoCall)

NextResponses ==
  \/ Idle /\ HealthCheck("background")
  \/ Idle /\ ValidateAPIKey("background")
  \/ Idle /\ EmailsSend("background", TestSend)
  \/ Idle /\ EmailsList("background", TestEmails)
  \/ Idle /\ EmailsGet("background", TestID)
  \/ Idle /\ DomainsList("background")
  \/ Idle /\ DomainsGet("background", TestID)
  \/ Idle /\ DomainsCreate("background", TestDomain)
  \/ Idle /\ DomainsDelete("background", TestID)
  \/ Idle /\ WebhooksList("background")
  \/ Idle /\ WebhooksGet("background", TestID)
  \/ Idle /\ TemplatesList("background", TestTemplates)
  \/ Idle /\ TemplatesCreate("background", TestTemplate)

SpecResponses == InitResponses /\ [][NextResponses]_vars

(***************************************************************************)
(* the three predicates on the error values a caller may hold              *)
(***************************************************************************)

MaxStatus == 599

ErrorValues ==
  {APIError(st, m, c, e) :
     st \in 0..MaxStatus, m \in {"", "Email not found."}, c \in {"", "not_found"},
     e \in {<<>>, "from" :> <<"required">>}}
  \cup {NoError,
        WrapError("lettr: request failed", "context canceled"),
        WrapError("lettr: failed to decode response", "json"),
        WrapError("lettr: failed to marshal request body", "json: unsupported type"),
        WrapError("", "net/http: nil Context")}

InitErrors ==
  \E e \in ErrorValues : Constructed(TestKey, TestServer, [NoCall EXCEPT !.err = e])

NextErrors == Idle /\ Classify(call.err)

SpecErrors == InitErrors /\ [][NextErrors]_vars

(***************************************************************************)
(* SetBaseURL on the addresses a caller may give, and again on its result  *)
(***************************************************************************)

MaxTailLen == 3

\* what follows the host: a path, a query, a fragment, escapes well and ill formed
\* (an escape "%F." is a byte outside the alphabet of the model)
Tails ==
  {t \in StringsUpTo({"/", "x", "?", "#", "%", "2", "F"}, MaxTailLen) :
     \A i \in 1..Len(t) - 1 : SubSeq(t, i, i + 1) # "%F"}

RawURLs ==
  {"https://h" \o t : t \in Tails}
  \cup {"mailto:a", "http://127.0.0.1:8080", "h/api", "/api", "", "://", "https://h/a%2Fb",
        "https://h/a%2F"}

InitBase ==
  \E raw \in RawURLs : Constructed(TestKey, TestServer, [NoCall EXCEPT !.rawURL = raw])

NextBase ==
  \/ Idle /\ SetBaseURL(call.rawURL)
  \/ call.op = "SetBaseURL" /\ ret.err.type = "nil" /\ SetBaseURL(String(baseURL))

SpecBase == InitBase /\ [][NextBase]_vars

(***************************************************************************)
(* the list operations on the parameters a caller may give                 *)
(***************************************************************************)

MaxCount == 10

Counts == {0 - 1, 0, 1, MaxCount}

Texts == {"", "abc", "a b&c=d+e", "x@y.z"}

ListEmailsParams ==
  {NoListEmailsParams}
  \cup {[nil |-> FALSE, PerPage |-> n, Cursor |-> c, Recipients |-> r, From |-> f, To |-> t] :
          n \in {0 - 1, 0, MaxCount}, c \in Texts, r \in {"", "x@y.z"},
          f \in {"", "a b&c=d+e"}, t \in {"", "x@y.z"}}

ListTemplatesParams ==
  {NoListTemplatesParams}
  \cup {[nil |-> FALSE, ProjectID |-> p, PerPage |-> n, Page |-> g] :
          p \in Counts, n \in Counts, g \in Counts}

InitQuery ==
  \/ \E p \in ListEmailsParams :
       Constructed(TestKey, TestServer, [NoCall EXCEPT !.emails = p])
  \/ \E p \in ListTemplatesParams :
       Constructed(TestKey, TestServer, [NoCall EXCEPT !.templates = p, !.id = "templates"])

NextQuery ==
  \/ Idle /\ call.id = "" /\ EmailsList("background", call.emails)
  \/ Idle /\ call.id = "templates" /\ TemplatesList("background", call.templates)

SpecQuery == InitQuery /\ [][NextQuery]_vars

(***************************************************************************)
(* the operations that take an identifier, on the identifiers a caller may *)
(* give                                                                    *)
(***************************************************************************)

MaxIdLen == 3

Ids == StringsUpTo({"a", ".", "/", "?", "#", "%", " "}, MaxIdLen)

InitIds == \E id \in Ids : Constructed(TestKey, TestServer, [NoCall EXCEPT !.id = id])

NextIds ==
  \/ Idle /\ EmailsGet("background", call.id)
  \/ Idle /\ DomainsGet("background", call.id)
  \/ Idle /\ DomainsDelete("background", call.id)
  \/ Idle /\ WebhooksGet("background", call.id)

SpecIds == InitIds /\ [][NextIds]_vars

(***************************************************************************)
(* SetBaseURL on a base address, and then one call of each operation       *)
(***************************************************************************)

\* base addresses: with and without a trailing separator, with a port, with
\* escapes, dot segments, empty segments, a query, a fragment; an opaque one,
\* a relative one and one that does not parse
JoinURLs ==
  {"https://h", "https://h/", "https://h/api", "https://h/api/", "https://h/api/v1",
   "https://h/a%2Fb", "https://h/a%20b", "https://h/a/../b", "https://h/a/./b",
   "https://h/api//", "https://h/api?x=1", "https://h/api#f",
   "http://127.0.0.1:8080", "http://127.0.0.1:8080/", "https://custom.example.com/api",
   "mailto:a", "/api", "://"}

InitJoin ==
  \E raw \in JoinURLs : Constructed(TestKey, TestServer, [NoCall EXCEPT !.rawURL = raw])

\* SetBaseURL has returned without an error, and no operation was called since
BaseSet == call.op = "SetBaseURL" /\ ret.err.type = "nil"

NextJoin ==
  \/ Idle /\ SetBaseURL(call.rawURL)
  \/ BaseSet /\ HealthCheck("background")
  \/ BaseSet /\ ValidateAPIKey("background")
  \/ BaseSet /\ EmailsSend("background", TestSend)
  \/ BaseSet /\ EmailsList("background", TestEmails)
  \/ BaseSet /\ EmailsGet("background", TestID)
  \/ BaseSet /\ DomainsList("background")
  \/ BaseSet /\ DomainsGet("background", TestID)
  \/ BaseSet /\ DomainsCreate("background", TestDomain)
  \/ BaseSet /\ DomainsDelete("background", TestID)
  \/ BaseSet /\ WebhooksList("background")
  \/ BaseSet /\ WebhooksGet("background", TestID)
  \/ BaseSet /\ TemplatesList("background", TestTemplates)
  \/ BaseSet /\ TemplatesCreate("background", TestTemplate)

SpecJoin == InitJoin /\ [][NextJoin]_vars

(***************************************************************************)
(* the operations with a request body, on the requests a caller may build  *)
(***************************************************************************)

\* SendEmailOptions values: the three flags nil, or set to false or true
OptionsValues ==
  {JObj(("click_tracking" :> c) @@ ("open_tracking" :> o) @@ ("transactional" :> JNull)) :
     c \in {JNull, JBool(FALSE), JBool(TRUE)}, o \in {JNull, JBool(FALSE)}}

TestAttachment ==
  JObj(("name" :> JStr("a.pdf")) @@ ("type" :> JStr("application/pdf"))
       @@ ("data" :> JStr("JVBERi0=")))

\* the requests of Emails.Send: required and optional fields set and unset,
\* pointers nil and pointing to zero, lists and maps nil, empty and filled
SendRequests ==
  {Params("SendEmailRequest",
          ("from" :> JStr("sender@example.com")) @@ ("from_name" :> n) @@ ("to" :> t)
          @@ ("subject" :> JStr("Hello")) @@ ("template_version" :> v)
          @@ ("attachments" :> a) @@ ("metadata" :> m) @@ ("options" :> o)) :
     n \in {JStr(""), JStr("Lettr")},
     t \in {JNull, JArr(<<JStr("recipient@example.com")>>)},
     v \in {JNull, JNum(0), JNum(3)},
     a \in {JNull, JArr(<<>>), JArr(<<TestAttachment>>)},
     m \in {JNull, JObj(<<>>), JObj("k" :> JStr("v"))},
     o \in {JNull} \cup OptionsValues}

DomainRequests ==
  {Params("CreateDomainRequest", "domain" :> d) : d \in {JStr(""), JStr("example.com")}}

TemplateRequests ==
  {Params("CreateTemplateRequest",
          ("name" :> JStr("Welcome Email")) @@ ("html" :> h) @@ ("project_id" :> p)
          @@ ("folder_id" :> f)) :
     h \in {JStr(""), JStr("<h1>Hello</h1>")},
     p \in {JNull, JNum(0), JNum(7)},
     f \in {JNull, JNum(0)}}

InitBodies ==
  \E params \in SendRequests \cup DomainRequests \cup TemplateRequests :
    Constructed(TestKey, TestServer, [NoCall EXCEPT !.params = params])

NextBodies ==
  \/ Idle /\ call.params.type = "SendEmailRequest" /\ EmailsSend("background", call.params)
  \/ Idle /\ call.params.type = "CreateDomainRequest"
          /\ DomainsCreate("background", call.params)
  \/ Idle /\ call.params.type = "CreateTemplateRequest"
          /\ TemplatesCreate("background", call.params)

SpecBodies == InitBodies /\ [][NextBodies]_vars

(***************************************************************************)
(* the properties                                                          *)
(***************************************************************************)

AllFalse == [notFound |-> FALSE, validation |-> FALSE, unauthorized |-> FALSE]

\* the response the last call received was not a 2xx
NonSuccessAnswer ==
  trace.responded /\ (server.StatusCode < 200 \/ server.StatusCode >= 300)

\* C1 as the specification words it: a request of HealthCheck carries no
\* Authorization header, and a request of any other operation carries
\* "Bearer " followed by the credential exactly as the constructor was given it
C1_BearerOfCredentialAsGiven ==
  \A i \in 1..Len(wire) :
    IF call.op = "HealthCheck" THEN "Authorization" \notin DOMAIN wire[i].Header
    ELSE /\ "Authorization" \in DOMAIN wire[i].Header
         /\ wire[i].Header["Authorization"] = "Bearer " \o credential

\* C1, amended: a request of HealthCheck carries no Authorization header, and a
\* request of any other operation carries "Bearer " followed by the credential
\* with its leading and trailing white space removed
C1_BearerOfTrimmedCredential ==
  \A i \in 1..Len(wire) :
    IF call.op = "HealthCheck" THEN "Authorization" \notin DOMAIN wire[i].Header
    ELSE /\ "Authorization" \in DOMAIN wire[i].Header
         /\ wire[i].Header["Authorization"] = "Bearer " \o TrimSpace(credential)

\* a request of ValidateAPIKey was sent by a client whose credential was given
\* with white space around it
C1_Witness ==
  /\ call.op = "ValidateAPIKey"
  /\ Len(wire) = 1
  /\ credential = "  test-api-key\t"
  /\ wire[1].Header["Authorization"] = "Bearer test-api-key"

\* C2: when a response with status s came back, the operation returns an *Error
\* exactly when s is outside 200..299, and that *Error carries s; on a 2xx whose
\* body was decoded, the message and every member of the data that the body
\* gives are in the result, and the payload of the tests decodes without error
C2_ErrorIffNotSuccess ==
  trace.responded =>
    /\ (ret.err.type = "*Error") <=> (server.StatusCode < 200 \/ server.StatusCode >= 300)
    /\ ret.err.type = "*Error" => ret.err.StatusCode = server.StatusCode
    /\ (trace.decoded /\ server.Body = BodyJSON(DomainPayload)) => ret.err.type = "nil"
    /\ (trace.decoded /\ ret.err.type = "nil" /\ server.Body.v.t = "object") =>
         LET Same(o) ==
               /\ ~ret.result.nil
               /\ ("message" \in DOMAIN o /\ o["message"].t = "string")
                    => ret.result.Message = o["message"].s
               /\ ("data" \in DOMAIN o /\ o["data"].t = "object")
                    => \A k \in DOMAIN ret.result.Data \cap DOMAIN o["data"].o :
                         o["data"].o[k].t # "null" => ret.result.Data[k] = o["data"].o[k]
         IN Same(server.Body.v.o)

\* Domains.Create received 201 and returned the domain of the body
C2_Witness ==
  /\ call.op = "Domains.Create"
  /\ server.StatusCode = 201
  /\ trace.decoded
  /\ ret.err.type = "nil"
  /\ ret.result.Message = "Domain created successfully."
  /\ ret.result.Data["domain"] = JStr("example.com")

\* C3: on an *Error, whatever its other fields, IsNotFound is true exactly for
\* status 404, IsValidationError exactly for 422 and IsUnauthorized exactly for
\* 401; at most one of the three is true of any error, and a 404 is not-found only
C3_PredicatesReadTheStatus ==
  call.op = "Classify" =>
    /\ call.err.type = "*Error" =>
         /\ class.notFound <=> call.err.StatusCode = 404
         /\ class.validation <=> call.err.StatusCode = 422
         /\ class.unauthorized <=> call.err.StatusCode = 401
         /\ call.err.StatusCode = 404 => class = [AllFalse EXCEPT !.notFound = TRUE]
    /\ Cardinality({p \in DOMAIN class : class[p]}) <= 1

\* the predicates were asked about a 404 that carries a message, a code and
\* field errors
C3_Witness ==
  /\ call.op = "Classify"
  /\ call.err.type = "*Error"
  /\ call.err.StatusCode = 404
  /\ call.err.Message # ""
  /\ call.err.Errors # <<>>
  /\ class.notFound

\* C4: an error that did not come from a non-2xx response (newRequest failed,
\* the transport failed, or a 2xx body did not decode) is not an *Error and the
\* three predicates are false of it; they are false of the nil error too
C4_OtherErrorsAreNotAPIErrors ==
  /\ (call.op # "" /\ ret.err.type # "nil" /\ ~NonSuccessAnswer)
       => ret.err.type # "*Error" /\ class = AllFalse
  /\ ret.err.type = "nil" => class = AllFalse

\* a 2xx body did not decode: the error is a plain one
C4_Witness ==
  /\ call.op = "Emails.Get"
  /\ trace.decoded
  /\ ret.err.type = "error"
  /\ ret.err.prefix = "lettr: failed to decode response"
  /\ class = AllFalse

\* the body of the response is an error object: message and error_code, where
\* present, are strings, and errors, where present, maps names to lists of strings
WellFormedErrorBody ==
  /\ server.Body.raw = "json"
  /\ server.Body.v.t = "object"
  /\ LET Is(o) ==
           /\ \A k \in {"message", "error_code"} \cap DOMAIN o : o[k].t = "string"
           /\ "errors" \in DOMAIN o =>
                /\ o["errors"].t = "object"
                /\ \A k \in DOMAIN o["errors"].o :
                     /\ o["errors"].o[k].t = "array"
                     /\ \A i \in 1..Len(o["errors"].o[k].a) : o["errors"].o[k].a[i].t = "string"
     IN Is(server.Body.v.o)

\* the string member k of the body, "" when the body has none
BodyText(k) ==
  IF k \in DOMAIN server.Body.v.o THEN server.Body.v.o[k].s ELSE ""

\* the *Error has the status of the response, the error code of the body, and
\* the field errors of the body: every name, with its messages in their order
ErrorCarriesBody ==
  /\ ret.err.type = "*Error"
  /\ ret.err.StatusCode = server.StatusCode
  /\ ret.err.ErrorCode = BodyText("error_code")
  /\ LET Same(o) ==
           IF "errors" \notin DOMAIN o THEN ret.err.Errors = <<>>
           ELSE /\ DOMAIN ret.err.Errors = DOMAIN o["errors"].o
                /\ \A k \in DOMAIN o["errors"].o :
                     /\ Len(ret.err.Errors[k]) = Len(o["errors"].o[k].a)
                     /\ \A i \in 1..Len(o["errors"].o[k].a) :
                          ret.err.Errors[k][i] = o["errors"].o[k].a[i].s
     IN Same(server.Body.v.o)

\* Emails.Send on a 422 whose errors name "from": a validation error only, with
\* messages under "from"
SendIsValidationError ==
  (/\ call.op = "Emails.Send"
   /\ server.StatusCode = 422
   /\ "errors" \in DOMAIN server.Body.v.o
   /\ "from" \in DOMAIN server.Body.v.o["errors"].o
   /\ server.Body.v.o["errors"].o["from"].a # <<>>)
  => /\ class = [AllFalse EXCEPT !.validation = TRUE]
     /\ ret.err.Errors["from"] # <<>>

\* C5 as the specification words it: on a non-2xx response whose body is an
\* error object, the *Error has the status of the response and the message, the
\* error code and the field errors of the body
C5_MessageOfBody ==
  (NonSuccessAnswer /\ WellFormedErrorBody) =>
    /\ ErrorCarriesBody
    /\ ret.err.Message = BodyText("message")
    /\ SendIsValidationError

\* C5, amended: on a non-2xx response whose body is an error object, the *Error
\* has the status of the response, the error code and the field errors of the
\* body, and the message of the body when that is not empty, the text
\* http.StatusText gives for the status when it is
C5_MessageOfBodyOrStatusText ==
  (NonSuccessAnswer /\ WellFormedErrorBody) =>
    /\ ErrorCarriesBody
    /\ ret.err.Message = IF BodyText("message") # "" THEN BodyText("message")
                         ELSE StatusText(server.StatusCode)
    /\ SendIsValidationError

\* Emails.Send received the 422 of the tests, with two messages under "from"
C5_Witness ==
  /\ call.op = "Emails.Send"
  /\ server.StatusCode = 422
  /\ server.Body = BodyJSON(ValidationBody)
  /\ ret.err.type = "*Error"
  /\ ret.err.Message = "Validation failed."
  /\ Len(ret.err.Errors["from"]) = 2
  /\ class.validation

\* C6 as the specification words it: the *Error made for a non-2xx response
\* has a message that is not empty: the message of the body when the body
\* decodes with one, the status text otherwise
C6_MessageNeverEmpty ==
  NonSuccessAnswer =>
    /\ ret.err.type = "*Error"
    /\ ret.err.Message # ""
    /\ ret.err.Message = IF WellFormedErrorBody /\ BodyText("message") # ""
                         THEN BodyText("message")
                         ELSE StatusText(server.StatusCode)

\* C7: on a 2xx response the body is decoded exactly when a destination was
\* given (every operation but Domains.Delete gives one) and the status is not
\* 204; a 204 yields no error, and Domains.Delete decodes nothing
C7_DecodeIffDestinationAndNot204 ==
  (trace.responded /\ server.StatusCode \in 200..299) =>
    /\ trace.decoded <=> (call.op # "Domains.Delete" /\ server.StatusCode # 204)
    /\ server.StatusCode = 204 => ret.err.type = "nil"
    /\ call.op = "Domains.Delete" => ~trace.decoded /\ ret.err.type = "nil"

\* an operation with a destination received a 204 with no body, decoded nothing
\* and returned no error
C7_Witness ==
  /\ call.op = "Domains.Get"
  /\ server.StatusCode = 204
  /\ server.Body = BodyEmpty
  /\ trace.responded
  /\ ~trace.decoded
  /\ ret.err.type = "nil"

\* SetBaseURL was called with an absolute URL that does not end with "/"
SetAbsoluteURL ==
  /\ call.op = "SetBaseURL"
  /\ ~HasSuffix(call.rawURL, "/")
  /\ LET Absolute(r) == r.ok /\ r.url.Scheme # "" IN Absolute(Parse(call.rawURL))

\* s ends with "/" and not with "//"
EndsWithOneSeparator(s) == HasSuffix(s, "/") /\ ~HasSuffix(s, "//")

\* SetBaseURL called with the string form of the stored base returns no error
\* and leaves that string form as it is
SetBaseURLAgain ==
  (/\ call.op = "SetBaseURL"
   /\ ret.err.type = "nil"
   /\ call'.op = "SetBaseURL"
   /\ call'.rawURL = String(baseURL))
  => ret'.err.type = "nil" /\ String(baseURL') = String(baseURL)

Wanted ==
  LET Set(v) == [k \in {n \in DOMAIN v : v[n] # ""} |-> v[k]]
      Number(n) == IF n > 0 THEN Itoa(n) ELSE ""
  IN IF call.op = "Emails.List"
     THEN Set(("per_page" :> Number(call.emails.PerPage))
              @@ ("cursor" :> call.emails.Cursor)
              @@ ("recipients" :> call.emails.Recipients)
              @@ ("from" :> call.emails.From)
              @@ ("to" :> call.emails.To))
     ELSE Set(("project_id" :> Number(call.templates.ProjectID))
              @@ ("per_page" :> Number(call.templates.PerPage))
              @@ ("page" :> Number(call.templates.Page)))

\* C9: the query of a request of Emails.List or Templates.List holds one pair
\* for each field that is set, with the value of the field, and no other pair;
\* when no field is set (or the parameters are nil) the URL has no query at all
C9_QueryHoldsTheSetFields ==
  (Len(wire) = 1 /\ call.op \in {"Emails.List", "Templates.List"}) =>
    LET Holds(pairs, want) ==
          /\ Len(pairs) = Cardinality(DOMAIN want)
          /\ \A i \in 1..Len(pairs) :
               /\ pairs[i][1] \in DOMAIN want
               /\ pairs[i][2] = want[pairs[i][1]]
          /\ \A i, j \in 1..Len(pairs) : pairs[i][1] = pairs[j][1] => i = j
          /\ DOMAIN want = {} =>
               /\ wire[1].URL.RawQuery = ""
               /\ ~wire[1].URL.ForceQuery
    IN Holds(parseQuery(wire[1].URL.RawQuery), Wanted)

\* Emails.List with PerPage 10 alone sent per_page=10
C9_Witness ==
  /\ call.op = "Emails.List"
  /\ call.emails = TestEmails
  /\ Len(wire) = 1
  /\ wire[1].URL.RawQuery = "per_page=10"

\* the collection each operation with an identifier reads
Collection ==
  ("Emails.Get" :> "emails") @@ ("Domains.Get" :> "domains")
  @@ ("Domains.Delete" :> "domains") @@ ("Webhooks.Get" :> "webhooks")

\* C10 as the specification words it: the request of an operation with an
\* identifier goes to the base path, the collection and exactly one more
\* segment, which decodes to the identifier, with no query and no fragment
C10_OneSegmentUnderTheCollection ==
  (Len(wire) = 1 /\ call.op \in DOMAIN Collection) =>
    LET Segment(seg) ==
          /\ Index(seg, "/") = 0
          /\ unescape(seg, "pathSegment") = [ok |-> TRUE, s |-> call.id]
        Under(path, prefix) ==
          /\ HasPrefix(path, prefix)
          /\ Segment(SubSeq(path, Len(prefix) + 1, Len(path)))
    IN /\ Under(EscapedPath(wire[1].URL), baseURL.Path \o Collection[call.op] \o "/")
       /\ wire[1].URL.RawQuery = ""
       /\ ~wire[1].URL.ForceQuery
       /\ wire[1].URL.Fragment = ""

\* the method and the path, relative to the base, of the endpoint of each
\* operation, the identifier being id
Endpoint(id) ==
  ("HealthCheck" :> [method |-> "GET", path |-> "health"])
  @@ ("ValidateAPIKey" :> [method |-> "GET", path |-> "auth/check"])
  @@ ("Emails.Send" :> [method |-> "POST", path |-> "emails"])
  @@ ("Emails.List" :> [method |-> "GET", path |-> "emails"])
  @@ ("Emails.Get" :> [method |-> "GET", path |-> "emails/" \o id])
  @@ ("Domains.List" :> [method |-> "GET", path |-> "domains"])
  @@ ("Domains.Get" :> [method |-> "GET", path |-> "domains/" \o id])
  @@ ("Domains.Create" :> [method |-> "POST", path |-> "domains"])
  @@ ("Domains.Delete" :> [method |-> "DELETE", path |-> "domains/" \o id])
  @@ ("Webhooks.List" :> [method |-> "GET", path |-> "webhooks"])
  @@ ("Webhooks.Get" :> [method |-> "GET", path |-> "webhooks/" \o id])
  @@ ("Templates.List" :> [method |-> "GET", path |-> "templates"])
  @@ ("Templates.Create" :> [method |-> "POST", path |-> "templates"])

\* p, with a separator after it unless it ends with one
Directory(p) == IF HasSuffix(p, "/") THEN p ELSE p \o "/"

\* the path of the address raw as it is written: what stands between the
\* authority and the query or the fragment
WrittenPath(raw) ==
  LET Of(rest) == IF Index(rest, "/") = 0 THEN "" ELSE SubSeq(rest, Index(rest, "/"), Len(rest))
      Hier(r) == Of(SubSeq(r, Index(r, ":") + 3, Len(r)))
  IN Hier(CutBefore(CutBefore(raw, "#"), "?"))

\* C11 as the specification words it: the request of the operation called
\* after SetBaseURL(b) succeeded for an absolute (http or https) b goes to the whole path of
\* b, one "/", and the relative path of the operation
C11_PathIsBaseThenRelative ==
  [][(/\ BaseSet
      /\ HasPrefix(call.rawURL, "http")
      /\ call'.op \in DOMAIN Endpoint(TestID)
      /\ Len(wire') = 1)
     => EscapedPath(wire'[1].URL)
          = Directory(WrittenPath(call.rawURL)) \o Endpoint(TestID)[call'.op].path]_vars

\* C12: the request of each operation has the method of its endpoint and goes
\* to the path of the base followed by the relative path of its endpoint (GET
\* for the list and get operations, POST for send and create, DELETE for delete)
C12_MethodAndPathOfEndpoint ==
  (Len(wire) = 1 /\ call.op \in DOMAIN Endpoint(call.id)) =>
    /\ wire[1].Method = Endpoint(call.id)[call.op].method
    /\ EscapedPath(wire[1].URL) = baseURL.Path \o Endpoint(call.id)[call.op].path

\* Domains.Delete sent DELETE to domains/req-123 under the default base
C12_Witness ==
  /\ call.op = "Domains.Delete"
  /\ Len(wire) = 1
  /\ wire[1].Method = "DELETE"
  /\ EscapedPath(wire[1].URL) = "/api/domains/req-123"

\* a pointer field, set when it is not nil
PointerKinds == {"*int", "*bool", "*struct", "*string"}

\* the caller set the field: a string that is not empty, a pointer that is not
\* nil, a list or a map with an element
IsSet(kind, v) ==
  /\ v.t # "null"
  /\ kind = "string" => v.s # ""
  /\ kind \in {"slice", "map"} => v.a # <<>> \/ DOMAIN v.o # {}

\* the server decodes the JSON j of a field to the value v the caller gave: the
\* same value, the flags of the options one by one
Reproduces(kind, j, v) ==
  IF kind = "*struct"
  THEN /\ j.t = "object"
       /\ \A n \in DOMAIN v.o :
            IF v.o[n].t = "null" THEN n \notin DOMAIN j.o
            ELSE n \in DOMAIN j.o /\ j.o[n] = v.o[n]
  ELSE j = v

ServiceOf ==
  [x \in {"Emails.Send", "Emails.List", "Emails.Get"} |-> "Emails"]
    @@ [x \in {"Domains.List", "Domains.Get", "Domains.Create", "Domains.Delete"} |-> "Domains"]
    @@ [x \in {"Webhooks.List", "Webhooks.Get"} |-> "Webhooks"]
    @@ [x \in {"Templates.List", "Templates.Create"} |-> "Templates"]

\* C14: both constructors, with any credential and any transport client (none
\* included, which becomes one with a timeout of 30 seconds), return a client
\* whose four services exist and hold that client, so a request made through
\* a service goes to the base address the client has at the time, the one a
\* SetBaseURL installed included.
C14_ServicesHoldTheClient ==
  /\ \A svc \in {"Emails", "Domains", "Webhooks", "Templates"} : services[svc] = "client"
  /\ httpClient = (IF given.nil THEN HTTPClient(30) ELSE given)
  /\ (Len(wire) = 1 /\ call.op \in DOMAIN ServiceOf)
       => /\ wire[1].URL.Scheme = baseURL.Scheme
          /\ wire[1].URL.Host = baseURL.Host
          /\ HasPrefix(EscapedPath(wire[1].URL), baseURL.Path)

\* a client made without a transport client, its base address replaced, has
\* sent a request of the Templates service to the new address
C14_Witness ==
  /\ given.nil
  /\ httpClient.Timeout = 30
  /\ call.op = "Templates.List"
  /\ Len(wire) = 1
  /\ wire[1].URL.Host = "custom.example.com"
  /\ services.Templates = "client"

\* the operations that take a body parameter
BodyOps == {"Emails.Send", "Domains.Create", "Templates.Create"}

\* C16: every request, the one of the health check included, carries
\* Accept: application/json and User-Agent: lettr-go/<Version>; it carries
\* Content-Type: application/json exactly when it carries a body, and the
\* operations without a body parameter send neither a body nor the header.
C16_HeadersOfEveryRequest ==
  LET Holds(req, h) ==
        /\ HeaderGet(h, "Accept") = "application/json"
        /\ HeaderGet(h, "User-Agent") = "lettr-go/" \o Version
        /\ ("Content-Type" \in DOMAIN h) <=> req.HasBody
        /\ "Content-Type" \in DOMAIN h => h["Content-Type"] = "application/json"
        /\ call.op \notin BodyOps => ~req.HasBody /\ "Content-Type" \notin DOMAIN h
        /\ call.op \in BodyOps => req.HasBody
  IN \A i \in 1 .. Len(wire) : Holds(wire[i], wire[i].Header)

\* Emails.Send has sent a request with a body and its Content-Type
C16_Witness ==
  /\ call.op = "Emails.Send"
  /\ Len(wire) = 1
  /\ wire[1].HasBody
  /\ wire[1].Body # JNull
  /\ HeaderGet(wire[1].Header, "Content-Type") = "application/json"
  /\ HeaderGet(wire[1].Header, "Accept") = "application/json"

\* C18: in every call of Client.do to which the transport gave a response the
\* body of the response is closed exactly once before do returns, whether the
\* status was not a 2xx, the decoding failed, nothing was to be decoded or the
\* decoding succeeded; when the transport failed there is no response and
\* nothing is closed.
C18_BodyClosedOnceIffResponse ==
  (call.op # "" /\ Len(wire) = 1) =>
    /\ server.kind = "resp" => trace.responded /\ trace.closed = 1
    /\ server.kind = "fail" => ~trace.responded /\ trace.closed = 0

\* the decoding of a 2xx body failed and the body was closed once
C18_Witness ==
  /\ call.op = "Templates.List"
  /\ server.StatusCode = 200
  /\ server.Body = BodyInvalid
  /\ trace.decoded
  /\ ret.err.type = "error"
  /\ trace.closed = 1

\* the last call was one of an operation that sends a request
APICall == call.op \notin {"", "SetBaseURL", "Classify"}

\* the request of the last call could not be built: no context, or a body
\* json.Marshal refuses
ConstructionFails ==
  call.ctx = "nil" \/ (call.op \in BodyOps /\ ~Marshal(call.params).ok)

\* a stage of the last call failed: construction, the transport, the status of
\* the response, or the decoding of a 2xx body into the destination
StageFails ==
  \/ ConstructionFails
  \/ server.kind = "fail"
  \/ server.StatusCode < 200 \/ server.StatusCode >= 300
  \/ /\ server.StatusCode # 204
     /\ call.op # "Domains.Delete"
     /\ server.Body \in {BodyEmpty, BodyInvalid}

\* C17: a call hands at most one request to the transport client, and exactly
\* one when the request could be built; it never sends again, and when
\* construction, the transport, the status or the decoding fails it returns an
\* error and no result.
C17_OneRequestAndNoFailureSwallowed ==
  APICall =>
    /\ Len(wire) <= 1
    /\ Len(wire) = 1 <=> ~ConstructionFails
    /\ StageFails => ret.err.type # "nil" /\ ret.result = NilResult

\* the transport failed: one request was sent and the call returned the error
C17_Witness ==
  /\ call.op = "Webhooks.List"
  /\ server.kind = "fail"
  /\ Len(wire) = 1
  /\ ret.err.type = "error"
  /\ ret.result = NilResult

(***************************************************************************)
(* calls that run at once on one client: every step of a goroutine reads   *)
(* or writes fields of the client, and nothing orders the steps of two     *)
(* goroutines                                                              *)
(***************************************************************************)

\* the public operations the goroutines run
ConcurrentOps == {"Emails.List", "Domains.List", "Webhooks.List", "Templates.List", "SetBaseURL"}

ConcurrentURLs == {"http://127.0.0.1:8080", "://"}

\* the fields of the client the next step of an operation reads: the service
\* of the caller's client.Emails.List(...), the base, user agent and key in
\* newRequest, the transport in do
Reads(op, pc) ==
  IF op = "SetBaseURL" THEN {}
  ELSE IF pc = "called" THEN {ServiceOf[op]}
  ELSE IF pc = "newRequest" THEN {"baseURL", "userAgent", "apiKey"}
  ELSE IF pc = "do" THEN {"httpClient"}
  ELSE {}

\* a variant of Writes in which newRequest stores the base it resolved against
WritesWithBaseStoredByNewRequest(op, pc) ==
  IF (op = "SetBaseURL" /\ pc = "store") \/ pc = "newRequest" THEN {"baseURL"} ELSE {}

\* the fields of the client the next step of an operation writes: c.baseURL = u
\* in SetBaseURL and nothing else
Writes(op, pc) == IF op = "SetBaseURL" /\ pc = "store" THEN {"baseURL"} ELSE {}

\* go client.<op>(...): goroutine g starts a call
Go(g, op, rawURL) ==
  /\ running[g].pc = ""
  /\ running' = [running EXCEPT ![g] = [NotRunning EXCEPT !.op = op, !.rawURL = rawURL,
                                                          !.pc = "called"]]
  /\ UNCHANGED <<config, call, wire, ret, class, trace>>

\* the caller reads the service off the client and enters its method
EnterService(g) ==
  /\ running[g].pc = "called"
  /\ running[g].op # "SetBaseURL"
  /\ services[ServiceOf[running[g].op]] = "client"
  /\ running' = [running EXCEPT ![g].pc = "newRequest"]
  /\ UNCHANGED <<config, call, wire, ret, class, trace>>

\* s.client.newRequest: the request of this call, built from the fields of the
\* client as they are now
BuildRequest(g) ==
  LET Built(nr) ==
        running' = [running EXCEPT ![g].req = nr.req,
                                   ![g].pc = IF nr.err.type = "nil" THEN "do" ELSE "done"]
      Of(e) == Built(newRequest("background", e.method, e.path, NoBody))
  IN /\ running[g].pc = "newRequest"
     /\ Of(Endpoint(TestID)[running[g].op])
     /\ UNCHANGED <<config, call, wire, ret, class, trace>>

\* s.client.do: the transport of the client sends the request of this call
SendRequest(g) ==
  /\ running[g].pc = "do"
  /\ ~httpClient.nil
  /\ wire' = Append(wire, running[g].req)
  /\ running' = [running EXCEPT ![g].pc = "done"]
  /\ UNCHANGED <<config, call, ret, class, trace>>

\* SetBaseURL up to its assignment: url.Parse and the separator, on a value of
\* its own
ParseBaseURL(g) ==
  /\ running[g].pc = "called"
  /\ running[g].op = "SetBaseURL"
  /\ running' = [running EXCEPT ![g].pc = IF Parse(running[g].rawURL).ok THEN "store"
                                          ELSE "done"]
  /\ UNCHANGED <<config, call, wire, ret, class, trace>>

\* c.baseURL = u
StoreBaseURL(g) ==
  /\ running[g].pc = "store"
  /\ baseURL' = withTrailingSeparator(Parse(running[g].rawURL).url)
  /\ running' = [running EXCEPT ![g].pc = "done"]
  /\ UNCHANGED <<credential, given, httpClient, services, apiKey, userAgent, server, call,
                 wire, ret, class, trace>>

\* two goroutines are each about to touch the same field of the client, one of
\* them to write it: a data race, nothing in the code orders the two
Conflict(g, h) ==
  LET Touches(w, r) == w \cap r # {}
  IN /\ g # h
     /\ Touches(Writes(running[g].op, running[g].pc),
                Reads(running[h].op, running[h].pc) \cup Writes(running[h].op, running[h].pc))

DataRace == \E g, h \in Goroutines : Conflict(g, h)

NextConcurrent ==
  \/ \E g \in Goroutines, op \in ConcurrentOps \ {"SetBaseURL"} : Go(g, op, "")
  \/ \E g \in Goroutines, rawURL \in ConcurrentURLs : Go(g, "SetBaseURL", rawURL)
  \/ \E g \in Goroutines : EnterService(g)
  \/ \E g \in Goroutines : BuildRequest(g)
  \/ \E g \in Goroutines : SendRequest(g)
  \/ \E g \in Goroutines : ParseBaseURL(g)
  \/ \E g \in Goroutines : StoreBaseURL(g)

SpecConcurrent == Constructed(TestKey, TestServer, NoCall) /\ [][NextConcurrent]_vars

\* C15 as the specification words it: operations that run at once on one
\* client never race, no public operation writes a field another one reads.
C15_NoDataRace == ~DataRace

\* the request goroutine g built is the one of its own operation
OwnRequest(g) ==
  LET Is(req, e) == req.Method = e.method /\ HasSuffix(EscapedPath(req.URL), e.path)
  IN running[g].req # NoRequest => Is(running[g].req, Endpoint(TestID)[running[g].op])

\* C15, amended: the operations that send requests never race with each
\* other, none of them writes a field of the client, and the key, the user
\* agent, the transport and the services are never written after
\* construction; the base address is written by SetBaseURL alone, without
\* synchronisation, so every data race is one between a SetBaseURL that is
\* storing the base and another SetBaseURL or an operation that is reading
\* it; each call builds and sends its own request.
C15_RacesOnlyWithSetBaseURL ==
  /\ [](\A g, h \in Goroutines :
          /\ Conflict(g, h) =>
               /\ running[g].op = "SetBaseURL"
               /\ running[h].op = "SetBaseURL" \/ running[h].pc = "newRequest"
          /\ OwnRequest(g))
  /\ [][/\ <<apiKey, userAgent, httpClient, services>>' = <<apiKey, userAgent, httpClient, services>>
        /\ \A g \in Goroutines :
             (running'[g] # running[g] /\ baseURL' # baseURL)
               => "baseURL" \in Writes(running[g].op, running[g].pc)
        /\ Len(wire') > Len(wire)
             => \E g \in Goroutines : running[g].pc = "do" /\ running'[g].pc = "done"
                                       /\ wire'[Len(wire')] = running[g].req]_vars

\* a SetBaseURL is about to store the base while Emails.List is about to read it
C15_Witness ==
  \E g, h \in Goroutines :
    /\ Conflict(g, h)
    /\ running[g].pc = "store"
    /\ running[h].op = "Emails.List"
    /\ running[h].pc = "newRequest"

(***************************************************************************)
(* one call whose context the caller may cancel: the request is in flight  *)
(* from the call of c.httpClient.Do until Do returns, with a response or   *)
(* with an error; the server may answer or never answer                    *)
(***************************************************************************)

\* the states of the caller's context, and the error of a context that is done
ContextStates == {"live", "canceled", "deadline exceeded"}

ContextError(ctx) == "context " \o ctx

\* a variant of requestContext in which the request is made without the
\* caller's context
requestContextBackground(ctx) == "live"

\* http.NewRequestWithContext(ctx, ...): the context the transport watches
requestContext(ctx) == ctx

CancelServers ==
  {TestServer, Response(204, BodyEmpty), Response(404, BodyJSON(ValidationBody))}

InitCancel == \E srv \in CancelServers : Constructed(TestKey, srv, NoCall)

\* the caller calls an operation with a context that is live or already done
Begin(g, op, ctx) ==
  /\ Idle
  /\ running[g].pc = ""
  /\ running' = [running EXCEPT ![g] = [NotRunning EXCEPT !.op = op, !.ctx = ctx, !.pc = "do"]]
  /\ UNCHANGED <<config, call, wire, ret, class, trace>>

\* the caller cancels the context, or its deadline passes, while the request
\* is in flight
Cancel(g, ctx) ==
  /\ running[g].pc = "do"
  /\ running[g].ctx = "live"
  /\ running' = [running EXCEPT ![g].ctx = ctx]
  /\ UNCHANGED <<config, call, wire, ret, class, trace>>

\* c.httpClient.Do sees that the context of the request is done and returns
\* its error
Abort(g) ==
  /\ running[g].pc = "do"
  /\ requestContext(running[g].ctx) # "live"
  /\ server' = Failure(ContextError(requestContext(running[g].ctx)))
  /\ running' = [running EXCEPT ![g].pc = "aborted"]
  /\ UNCHANGED <<credential, given, httpClient, services, apiKey, baseURL, userAgent, call,
                 wire, ret, class, trace>>

\* the response arrives while the context is live: c.httpClient.Do returns it
Respond(g) ==
  /\ running[g].pc = "do"
  /\ running[g].ctx = "live"
  /\ running' = [running EXCEPT ![g].pc = "responded"]
  /\ UNCHANGED <<config, call, wire, ret, class, trace>>

\* the transport fails for a reason of its own
TransportFails(g) ==
  /\ running[g].pc = "do"
  /\ running[g].ctx = "live"
  /\ server' = Failure("dial tcp: connection refused")
  /\ running' = [running EXCEPT ![g].pc = "failed"]
  /\ UNCHANGED <<credential, given, httpClient, services, apiKey, baseURL, userAgent, call,
                 wire, ret, class, trace>>

\* the context is cancelled after Do has returned the response: the body was
\* read already, or it can no longer be read
CancelLate(g, ctx, readable) ==
  /\ Idle
  /\ running[g].pc = "responded"
  /\ running[g].ctx = "live"
  /\ server' = IF readable THEN server ELSE [server EXCEPT !.Body = BodyInvalid]
  /\ running' = [running EXCEPT ![g].ctx = ctx]
  /\ UNCHANGED <<credential, given, httpClient, services, apiKey, baseURL, userAgent, call,
                 wire, ret, class, trace>>

\* the operation goes on from what c.httpClient.Do returned and returns
Finish(g) ==
  LET Of(op) ==
        \/ op = "HealthCheck" /\ HealthCheck("background")
        \/ op = "ValidateAPIKey" /\ ValidateAPIKey("background")
        \/ op = "Emails.Send" /\ EmailsSend("background", TestSend)
        \/ op = "Emails.List" /\ EmailsList("background", TestEmails)
        \/ op = "Emails.Get" /\ EmailsGet("background", TestID)
        \/ op = "Domains.List" /\ DomainsList("background")
        \/ op = "Domains.Get" /\ DomainsGet("background", TestID)
        \/ op = "Domains.Create" /\ DomainsCreate("background", TestDomain)
        \/ op = "Domains.Delete" /\ DomainsDelete("background", TestID)
        \/ op = "Webhooks.List" /\ WebhooksList("background")
        \/ op = "Webhooks.Get" /\ WebhooksGet("background", TestID)
        \/ op = "Templates.List" /\ TemplatesList("background", TestTemplates)
        \/ op = "Templates.Create" /\ TemplatesCreate("background", TestTemplate)
  IN /\ Idle
     /\ running[g].pc \in {"aborted", "responded", "failed"}
     /\ Of(running[g].op)

CancelOps ==
  {"HealthCheck", "ValidateAPIKey", "Emails.Send", "Emails.List", "Emails.Get", "Domains.List",
   "Domains.Get", "Domains.Create", "Domains.Delete", "Webhooks.List", "Webhooks.Get",
   "Templates.List", "Templates.Create"}

NextCancel ==
  \/ \E op \in CancelOps, ctx \in ContextStates : Begin(1, op, ctx)
  \/ \E ctx \in ContextStates \ {"live"} : Cancel(1, ctx)
  \/ Abort(1)
  \/ Respond(1)
  \/ TransportFails(1)
  \/ \E ctx \in ContextStates \ {"live"}, readable \in BOOLEAN : CancelLate(1, ctx, readable)
  \/ Finish(1)

\* Finish(1) is enabled in exactly these states, and a step of it leaves them
CanFinish == Idle /\ running[1].pc \in {"aborted", "responded", "failed"}

\* c.httpClient.Do returns once the context of its request is done, and the
\* goroutine of the call keeps running: weak fairness of Abort(1) and of
\* Finish(1), the latter written with its enabling condition (WF_vars(A) is
\* []<>~ENABLED <<A>>_vars \/ []<><<A>>_vars, and here every step of Finish(1)
\* ends in a state where it is disabled); nothing makes the server answer
SpecCancel ==
  InitCancel /\ [][NextCancel]_vars /\ WF_vars(Abort(1)) /\ []<>~CanFinish

\* the call of goroutine 1 has returned
Returned == call.op # "" /\ call.op = running[1].op

MalformedPaths == {"%zz", ":x", "a%", "emails/%2"}

RelativePaths == MalformedPaths \cup {"health", "emails", "emails/req-123", "emails?per_page=10"}

\* base addresses url.Parse refuses, and some it takes
MalformedURLs == {"://", "http://h/%zz"}

ConstructURLs ==
  MalformedURLs \cup {"http://127.0.0.1:8080", "http://127.0.0.1:8080/v2",
                      "https://custom.example.com/api"}

\* s.client.newRequest(ctx, method, path, nil) and s.client.do(req, &resp), as
\* every operation without a body makes them, on a path of any form
Request(ctx, method, path) ==
  Call([NoCall EXCEPT !.op = "newRequest", !.ctx = ctx, !.id = path],
       newRequest(ctx, method, path, NoBody),
       "HealthCheckResponse")

NextConstruct ==
  \/ \E rawURL \in ConstructURLs : SetBaseURL(rawURL)
  \/ \E ctx \in Contexts, params \in SendParams : EmailsSend(ctx, params)
  \/ \E ctx \in Contexts : DomainsCreate(ctx, TestDomain)
  \/ \E ctx \in Contexts : TemplatesCreate(ctx, TestTemplate)
  \/ \E ctx \in Contexts, method \in {"GET", "POST", "DELETE"}, path \in RelativePaths :
       Request(ctx, method, path)

SpecConstruct == Constructed(TestKey, TestServer, NoCall) /\ [][NextConstruct]_vars

\* the relative path of the last call does not resolve against the base
PathFails == call.op = "newRequest" /\ call.id \in MalformedPaths

\* the body of the last call is one json.Marshal refuses
MarshalFails == call.op \in BodyOps /\ ~Marshal(call.params).ok

\* C20: when the relative path does not resolve against the base, or the body
\* cannot be serialized, the operation returns a wrapped error and no result,
\* and nothing is handed to the transport; a base address that does not parse
\* is reported by SetBaseURL itself, which sends nothing.
C20_ConstructionFailureSendsNothing ==
  /\ PathFails =>
       /\ ret.err.type = "error"
       /\ ret.err.prefix = "lettr: invalid path"
       /\ ret.result = NilResult
       /\ wire = <<>>
       /\ ~trace.responded
  /\ MarshalFails =>
       /\ ret.err.type = "error"
       /\ ret.err.prefix = "lettr: failed to marshal request body"
       /\ ret.result = NilResult
       /\ wire = <<>>
       /\ ~trace.responded
  /\ (call.op = "SetBaseURL" /\ call.rawURL \in MalformedURLs) =>
       /\ ret.err.type = "error"
       /\ ret.result = NilResult
       /\ wire = <<>>
  /\ (call.op = "newRequest" /\ call.ctx # "nil" /\ call.id \notin MalformedPaths)
       => Len(wire) = 1

\* Emails.Send was given substitution data that cannot be serialized: it
\* returned the wrapped error of json.Marshal and sent nothing
C20_Witness ==
  /\ call.op = "Emails.Send"
  /\ call.ctx = "background"
  /\ MarshalFails
  /\ ret.err.prefix = "lettr: failed to marshal request body"
  /\ wire = <<>>

\* the input of the last SetBaseURL parses as an absolute URL: one with a scheme
AbsoluteInput ==
  LET Absolute(r) == r.ok /\ r.url.Scheme # "" IN Absolute(Parse(call.rawURL))

\* a SetBaseURL that returns an error leaves the stored base as it was
FailingSetBaseURLKeepsBase ==
  (call'.op = "SetBaseURL" /\ ret'.err.type # "nil") => baseURL' = baseURL

\* a SetBaseURL that returns no error stores its input, parsed, with the
\* separator at the end of the path
SetBaseURLStoresInput ==
  (call.op = "SetBaseURL" /\ ret.err.type = "nil")
    => baseURL = withTrailingSeparator(Parse(call.rawURL).url)

\* C21: SetBaseURL takes only input that parses as an absolute URL and returns
\* a parse error for any other; when it fails the stored base keeps its value,
\* and when it succeeds the stored base is the input, parsed and normalised.
C21_OnlyAbsoluteURLAccepted ==
  /\ [](call.op = "SetBaseURL" => (ret.err.type = "nil" <=> AbsoluteInput))
  /\ []SetBaseURLStoresInput
  /\ [][FailingSetBaseURLKeepsBase]_vars

\* the last call was one of an operation that returns a result and an error
ResultCall == APICall /\ call.op # "Domains.Delete"

\* C22: an operation that returns a result and an error returns exactly one of
\* them, a result with a nil error or a nil result with an error; after a
\* response that is not a 2xx, or a body that does not decode, the envelope is
\* not handed to the caller, and the body of a response that is not a 2xx is
\* never decoded into the envelope.
C22_ExactlyOneOfResultAndError ==
  ResultCall =>
    /\ ret.err.type = "nil" <=> ~ret.result.nil
    /\ ret.err.type # "nil" => ret.result = NilResult
    /\ NonSuccessAnswer => ~trace.decoded /\ ret.result = NilResult

\* a 2xx body whose message decodes and whose data does not: the call returned
\* the error and no result
C22_Witness ==
  /\ call.op = "Emails.Get"
  /\ server.StatusCode = 200
  /\ server.Body = BodyJSON(JObj(("message" :> JStr("ok")) @@ ("data" :> JStr("none"))))
  /\ trace.decoded
  /\ ret.err.type = "error"
  /\ ret.result = NilResult

\* a step of an operation other than SetBaseURL leaves the fields of the client
\* as they were, and a step of SetBaseURL leaves all but the base
OperationsKeepTheClient ==
  /\ <<apiKey, userAgent, httpClient, services>>' = <<apiKey, userAgent, httpClient, services>>
  /\ call'.op # "SetBaseURL" => baseURL' = baseURL
  /\ (call'.op = "SetBaseURL" /\ ret'.err.type # "nil") => baseURL' = baseURL

\* the operation that follows a HealthCheck sends the Authorization header
AuthorizationAfterHealthCheck ==
  (call.op = "HealthCheck" /\ call'.op \notin {"HealthCheck", "SetBaseURL", "Classify"}
   /\ Len(wire') = 1)
    => HeaderGet(wire'[1].Header, "Authorization") = "Bearer " \o apiKey

\* the request of the step went to the base the client has: the one of the
\* last SetBaseURL that succeeded, or the default one
RequestAgainstStoredBase ==
  (call'.op # "SetBaseURL" /\ Len(wire') = 1)
    => /\ wire'[1].URL.Scheme = baseURL.Scheme
       /\ wire'[1].URL.Host = baseURL.Host
       /\ HasPrefix(EscapedPath(wire'[1].URL), EscapedPath(baseURL))

\* C23: no operation that sends a request changes the key, the base, the user
\* agent, the transport or the services of the client, whether it succeeds or
\* fails, and only SetBaseURL changes the base; so the header HealthCheck
\* removes is removed from its own request only, and every request goes to
\* the base of the last SetBaseURL that succeeded, or to the default base.
C23_OperationsLeaveTheClientAlone ==
  [][OperationsKeepTheClient /\ AuthorizationAfterHealthCheck /\ RequestAgainstStoredBase]_vars

\* after a SetBaseURL, ValidateAPIKey has sent its request, with the
\* Authorization header, to the new base, and the client is as constructed
\* but for the base
C23_Witness ==
  /\ call.op = "ValidateAPIKey"
  /\ Len(wire) = 1
  /\ wire[1].URL.Host = "127.0.0.1:8080"
  /\ baseURL.Host = "127.0.0.1:8080"
  /\ HeaderGet(wire[1].Header, "Authorization") = "Bearer " \o TestKey
  /\ apiKey = TestKey
  /\ userAgent = "lettr-go/" \o Version

====
